---- MODULE Spec2Model ----
(***************************************************************************)
(* Model of the miro-mcp server: the line-oriented JSON-RPC loop           *)
(* (server.py), the tool registry (tool_registry.py), the tool handlers    *)
(* (tools/*.py) and the authenticated client (miro_client.py).             *)
(*                                                                         *)
(* One step of the model is one iteration of the loop in main(): one input *)
(* line is read and handled to completion.                                 *)
(***************************************************************************)
EXTENDS Integers, Sequences, FiniteSets, TLC

(***************************************************************************)
(* Bounds.                                                                 *)
(***************************************************************************)
\* number of input lines the server reads in one run
MaxLines == 3

\* items in one call of group_shapes
MaxItems == 2

\* nesting depth and container width of the values given to convert_to_dict
MaxDepth == 2
MaxWidth == 1

(***************************************************************************)
(* JSON / Python values.  Every value is a record of one shape so that     *)
(* values of different Python types can be compared.                       *)
(*   t = "absent"  the key is not in the dict                              *)
(*   t = "null"    None                                                    *)
(*   t = "str"     the string s                                            *)
(*   t = "num"     the number n                                            *)
(*   t = "list"    a list of n item ids                                    *)
(*   t = "dict"    a JSON object (used where a string is expected)         *)
(***************************************************************************)
Absent == [t |-> "absent", s |-> "", n |-> 0]
None == [t |-> "null", s |-> "", n |-> 0]
Str(s) == [t |-> "str", s |-> s, n |-> 0]
Num(n) == [t |-> "num", s |-> "", n |-> n]
List(n) == [t |-> "list", s |-> "", n |-> n]
Dict == [t |-> "dict", s |-> "", n |-> 0]

\* Python truthiness: bool(v)
Truthy(v) ==
    CASE v.t = "absent" -> FALSE
      [] v.t = "null" -> FALSE
      [] v.t = "str" -> v.s # ""
      [] v.t = "num" -> v.n # 0
      [] v.t = "list" -> v.n > 0
      [] v.t = "dict" -> FALSE

\* strings that float() accepts
NumericStrings == {"7"}

\* float(v) returns normally
FloatOk(v) == \/ v.t = "num"
              \/ v.t = "str" /\ v.s \in NumericStrings

\* the exception float(v) raises when it does not return
FloatExc(v) == IF v.t = "str" THEN <<"ValueError", "could not convert string to float">>
               ELSE <<"TypeError", "float() argument must be a string or a real number">>

\* hash(v) returns normally (lists and dicts are unhashable)
Hashable(v) == v.t \notin {"list", "dict"}

\* str(v) as used in f-strings
PyStr(v) ==
    CASE v.t = "str" -> v.s
      [] v.t = "num" -> IF v.n = 0 THEN "0" ELSE IF v.n = 1 THEN "1" ELSE IF v.n = 2 THEN "2" ELSE "5"
      [] v.t \in {"null", "absent"} -> "None"
      [] v.t = "list" -> "[...]"
      [] v.t = "dict" -> "{...}"

(***************************************************************************)
(* Results of Python calls: a value returned or an exception raised.       *)
(***************************************************************************)
NoExc == <<>>

(***************************************************************************)
(* tool_registry.py and the register_tool calls of tools/*.py              *)
(***************************************************************************)
\* the 'required' mark of a parameter: "none" (no 'required' key), "false", "true"
P(k, mark) == [key |-> k, required |-> mark]

\* v.get('required', False)
RequiredMark(p) == IF p.required = "true" THEN TRUE ELSE FALSE

\* [k for k, v in parameters.items() if v.get('required', False)]
RECURSIVE RequiredOf(_)
RequiredOf(params) ==
    IF params = <<>> THEN <<>>
    ELSE (IF RequiredMark(Head(params)) THEN <<Head(params).key>> ELSE <<>>)
         \o RequiredOf(Tail(params))

RECURSIVE IndexOfName(_, _, _)
IndexOfName(tools, name, i) ==
    IF i > Len(tools) THEN 0
    ELSE IF tools[i].name = name THEN i
    ELSE IndexOfName(tools, name, i + 1)

\* register_tool(name, description, parameters) applied to the dict TOOLS
\* (a dict keeps insertion order; assigning an existing key keeps its place)
register_tool(tools, name, params) ==
    LET d == [name |-> name, properties |-> params, required |-> RequiredOf(params)]
        i == IndexOfName(tools, name, 1)
    IN IF i = 0 THEN Append(tools, d) ELSE [tools EXCEPT ![i] = d]

ShapeCreateParams ==
    << P("board_id", "none"), P("shape_type", "none"), P("x", "none"), P("y", "none"),
       P("width", "none"), P("height", "none"), P("fillColor", "false"),
       P("borderColor", "false"), P("borderWidth", "false"), P("content", "false") >>

ShapeUpdateParams ==
    << P("board_id", "none"), P("item_id", "none"), P("x", "false"), P("y", "false"),
       P("width", "false"), P("height", "false"), P("fillColor", "false"),
       P("borderColor", "false"), P("borderWidth", "false"), P("content", "false") >>

ShapeDeleteParams == << P("board_id", "none"), P("item_id", "none") >>

GroupParams == << P("board_id", "none"), P("item_ids", "none") >>

UngroupParams == << P("board_id", "none"), P("group_id", "none") >>

AuthUrlParams == << >>

ExchangeParams == << P("code", "none") >>

BoardParams == << P("board_id", "none") >>

\* the register_tool calls in import order (server.py line 7)
Registrations ==
    << [name |-> "create_shape", params |-> ShapeCreateParams],
       [name |-> "update_shape", params |-> ShapeUpdateParams],
       [name |-> "delete_shape", params |-> ShapeDeleteParams],
       [name |-> "group_shapes", params |-> GroupParams],
       [name |-> "ungroup_shapes", params |-> UngroupParams],
       [name |-> "get_auth_url", params |-> AuthUrlParams],
       [name |-> "exchange_auth_code", params |-> ExchangeParams],
       [name |-> "get_board", params |-> BoardParams] >>

RECURSIVE RegisterAll(_, _)
RegisterAll(tools, regs) ==
    IF regs = <<>> THEN tools
    ELSE RegisterAll(register_tool(tools, Head(regs).name, Head(regs).params), Tail(regs))

\* TOOLS once every tool module is imported
ImportedTools == RegisterAll(<<>>, Registrations)

\* tool_name in TOOLS, for a hashable tool_name
InTools(tools, v) == v.t = "str" /\ IndexOfName(tools, v.s, 1) # 0


(***************************************************************************)
(* config.py                                                               *)
(***************************************************************************)
\* the environments the process can be started in: is MIRO_CLIENT_ID /
\* MIRO_CLIENT_SECRET set to a non-empty string
Configs ==
    { [client_id |-> TRUE, client_secret |-> TRUE],
      [client_id |-> FALSE, client_secret |-> TRUE],
      [client_id |-> TRUE, client_secret |-> FALSE] }

\* validate_config(): the exception it raises, NoExc when it returns
validate_config(cfg) ==
    IF ~cfg.client_id THEN <<"ValueError", "MIRO_CLIENT_ID environment variable is required">>
    ELSE IF ~cfg.client_secret THEN <<"ValueError", "MIRO_CLIENT_SECRET environment variable is required">>
    ELSE NoExc

(***************************************************************************)
(* miro_client.py: the token file and the session                          *)
(***************************************************************************)
\* None where a token string is expected
NoTok == "<None>"

\* tokens the vendor issues
Tokens == {"t1", "t2"}

\* bool(token)
TokTruthy(t) == t \notin {NoTok, ""}

\* the content of TOKEN_STORAGE_FILE:
\*   "absent"   no file
\*   "garbage"  not parsable as JSON (also an empty or partly written file)
\*   "nondict"  valid JSON that is not an object
\*   "nokey"    a JSON object without 'access_token'
\*   "pair"     {"access_token": access, "refresh_token": refresh}
File(k, a, r) == [k |-> k, access |-> a, refresh |-> r]
NoFile == File("absent", NoTok, NoTok)

\* the files a process may find at start
InitialFiles ==
    { NoFile, File("garbage", NoTok, NoTok), File("nondict", NoTok, NoTok),
      File("nokey", NoTok, NoTok), File("pair", "t1", "r1"),
      File("pair", "", NoTok), File("pair", NoTok, NoTok) }

\* self._miro: hid = 0 is None
NoHandle == [hid |-> 0, access_token |-> NoTok, refresh_token |-> NoTok]

\* the variable miro_client of main(): inst = 0 is None
NoClient == [inst |-> 0, miro |-> NoHandle,
             stored_access_token |-> NoTok, stored_refresh_token |-> NoTok]

\* a call made to the vendor (SDK or HTTP)
VCall(name, fields, token) == [call |-> name, fields |-> fields, token |-> token]

\* what a client method did: the exception raised (NoExc if it returned), the
\* session and the token file afterwards, the vendor calls made
Eff(exc, c, f, calls) == [exc |-> exc, client |-> c, file |-> f, calls |-> calls]

\* MiroClient._load_tokens
_load_tokens(c, f) ==
    CASE f.k = "absent" -> Eff(NoExc, c, f, <<>>)
      [] f.k = "pair" ->
            Eff(NoExc, [c EXCEPT !.stored_access_token = f.access,
                                 !.stored_refresh_token = f.refresh], f, <<>>)
      [] f.k \in {"garbage", "nokey"} ->
            Eff(NoExc, [c EXCEPT !.stored_access_token = NoTok,
                                 !.stored_refresh_token = NoTok], NoFile, <<>>)
      [] f.k = "nondict" ->
            Eff(<<"TypeError", "indices must be integers or slices, not str">>, c, f, <<>>)

\* MiroClient.__init__: inst names the new object
MiroClient(cfg, f, inst) ==
    IF validate_config(cfg) # NoExc THEN Eff(validate_config(cfg), NoClient, f, <<>>)
    ELSE _load_tokens([NoClient EXCEPT !.inst = inst], f)

\* self._miro and hasattr(self._miro, 'access_token') and self._miro.access_token
HasLiveToken(c) == c.miro.hid # 0 /\ TokTruthy(c.miro.access_token)

\* MiroClient.is_authenticated
is_authenticated(c) == HasLiveToken(c) \/ c.stored_access_token # NoTok

NotAuthenticatedMsg ==
    "Not authenticated. Please complete OAuth flow first. Use get_auth_url() to get authorization URL, then exchange_code_for_token() with the code."

\* MiroClient._ensure_authenticated
_ensure_authenticated(c) ==
    IF ~is_authenticated(c) THEN <<"ValueError", NotAuthenticatedMsg>> ELSE NoExc

ReauthMsg ==
    "Miro API client requires tokens to be set through OAuth flow. Please call get_auth_url() and exchange_code_for_token() to re-authenticate."

\* _get_api without the test of lines 165-171: being authenticated is
\* enough (C14 must notice)
_get_api_cached_ok(c) == _ensure_authenticated(c)

\* MiroClient._get_api: the exception raised, NoExc when the api is returned
_get_api(c) ==
    IF _ensure_authenticated(c) # NoExc THEN _ensure_authenticated(c)
    ELSE IF ~HasLiveToken(c)
         THEN IF TokTruthy(c.stored_access_token)
              THEN <<"ValueError", ReauthMsg>>
              ELSE <<"ValueError", "Not authenticated. Please complete OAuth flow first.">>
    ELSE NoExc

\* what the vendor and the file system do during one call
\*   api       the SDK / HTTP call succeeds
\*   exchange  the vendor accepts the authorization code
\*   tok, refresh  the pair the vendor issues
\*   save      "ok", "open_fails" (open() raises), "write_fails" (json.dump raises
\*             after open() truncated the file)
Vendors ==
    [api : BOOLEAN, exchange : BOOLEAN, tok : Tokens, refresh : {"r1", NoTok},
     save : {"ok", "open_fails", "write_fails"}]

\* _save_tokens with the tests of lines 106-111 in the other order: a cached
\* pair is preferred to the pair of the live handle (C13 must notice)
_save_tokens_cached_first(c, f, v) ==
    LET access == IF TokTruthy(c.stored_access_token) THEN c.stored_access_token
                  ELSE IF HasLiveToken(c) THEN c.miro.access_token
                  ELSE NoTok
        refresh == IF TokTruthy(c.stored_access_token) THEN c.stored_refresh_token
                   ELSE IF HasLiveToken(c) THEN c.miro.refresh_token
                   ELSE NoTok
    IN IF ~TokTruthy(access) THEN Eff(NoExc, c, f, <<>>)
       ELSE IF v.save # "ok" THEN Eff(<<"OSError", "cannot write token file">>, c, f, <<>>)
       ELSE Eff(NoExc, [c EXCEPT !.stored_access_token = access,
                                 !.stored_refresh_token = refresh],
                File("pair", access, refresh), <<>>)

\* MiroClient._save_tokens
_save_tokens(c, f, v) ==
    LET access == IF HasLiveToken(c) THEN c.miro.access_token
                  ELSE IF TokTruthy(c.stored_access_token) THEN c.stored_access_token
                  ELSE NoTok
        refresh == IF HasLiveToken(c) THEN c.miro.refresh_token
                   ELSE IF TokTruthy(c.stored_access_token) THEN c.stored_refresh_token
                   ELSE NoTok
    IN IF ~TokTruthy(access) THEN Eff(NoExc, c, f, <<>>)
       ELSE CASE v.save = "open_fails" ->
                    Eff(<<"OSError", "cannot open token file">>, c, f, <<>>)
              [] v.save = "write_fails" ->
                    Eff(<<"OSError", "cannot write token file">>, c,
                        File("garbage", NoTok, NoTok), <<>>)
              [] OTHER ->
                    Eff(NoExc, [c EXCEPT !.stored_access_token = access,
                                         !.stored_refresh_token = refresh],
                        File("pair", access, refresh), <<>>)

\* MiroClient.get_auth_url: hid names the new miro_api.Miro object
get_auth_url(c, f, hid) ==
    Eff(NoExc, [c EXCEPT !.miro = [hid |-> hid, access_token |-> NoTok,
                                   refresh_token |-> NoTok]], f, <<>>)

NotInitializedMsg ==
    "Miro instance not initialized. Please call get_auth_url() first to start the OAuth flow."

\* exchange_code_for_token without the test of lines 134-137: the vendor is
\* called whether or not a live handle exists (C12 must notice)
exchange_code_unguarded(c, f, code, v) ==
    LET call == <<VCall("exchange_code_for_access_token", {}, NoTok)>>
    IN IF ~v.exchange
       THEN Eff(<<"VendorError", "authorization code rejected">>, c, f, call)
       ELSE Eff(NoExc, [c EXCEPT !.miro.access_token = v.tok,
                                 !.miro.refresh_token = v.refresh], f, call)

\* MiroClient.exchange_code_for_token
exchange_code_for_token(c, f, code, v) ==
    IF c.miro.hid = 0
    THEN Eff(<<"ValueError", NotInitializedMsg>>, c, f, <<>>)
    ELSE LET call == <<VCall("exchange_code_for_access_token", {}, NoTok)>>
         IN IF ~v.exchange
            THEN Eff(<<"VendorError", "authorization code rejected">>, c, f, call)
            ELSE LET c1 == [c EXCEPT !.miro.access_token = v.tok,
                                     !.miro.refresh_token = v.refresh]
                     s == _save_tokens(c1, f, v)
                 IN Eff(s.exc, s.client, s.file, call)

\* MiroClient.get_board
get_board(c, f, v) ==
    IF _ensure_authenticated(c) # NoExc THEN Eff(_ensure_authenticated(c), c, f, <<>>)
    ELSE IF ~HasLiveToken(c) /\ ~TokTruthy(c.stored_access_token)
    THEN Eff(<<"ValueError", "No access token available">>, c, f, <<>>)
    ELSE LET token == IF HasLiveToken(c) THEN c.miro.access_token
                      ELSE c.stored_access_token
             call == <<VCall("GET /v2/boards", {}, token)>>
         IN IF v.api THEN Eff(NoExc, c, f, call)
            ELSE Eff(<<"HTTPError", "request failed">>, c, f, call)

\* MiroClient._format_style: the keys of the style payload
_format_style(style) ==
    (IF "fillColor" \in style THEN {"style.fill_color", "style.fill_opacity"} ELSE {})
    \cup (IF "borderColor" \in style THEN {"style.border_color", "style.border_opacity"} ELSE {})
    \cup (IF "borderWidth" \in style THEN {"style.border_width"} ELSE {})

\* MiroClient.create_shape; content is the value passed, style the keys passed
create_shape(c, f, style, content, v) ==
    IF _get_api(c) # NoExc THEN Eff(_get_api(c), c, f, <<>>)
    ELSE LET fields == {"data.shape", "position.x", "position.y",
                        "geometry.width", "geometry.height"}
                       \cup (IF Truthy(content) THEN {"data.content"} ELSE {})
                       \cup _format_style(style)
             call == <<VCall("create_shape_item", fields, c.miro.access_token)>>
         IN IF v.api THEN Eff(NoExc, c, f, call)
            ELSE Eff(<<"ApiException", "create_shape_item failed">>, c, f, call)

\* MiroClient.update_shape; position and geometry are the keys of the dicts
\* passed ({} for None)
update_shape(c, f, position, geometry, style, content, v) ==
    IF _get_api(c) # NoExc THEN Eff(_get_api(c), c, f, <<>>)
    ELSE IF geometry # {} /\ "width" \notin geometry
    THEN Eff(<<"KeyError", "'width'">>, c, f, <<>>)
    ELSE IF geometry # {} /\ "height" \notin geometry
    THEN Eff(<<"KeyError", "'height'">>, c, f, <<>>)
    ELSE LET fields == {"position." \o k : k \in position}
                       \cup {"geometry." \o k : k \in geometry}
                       \cup (IF content.t \notin {"absent", "null"} THEN {"data.content"} ELSE {})
                       \cup _format_style(style)
             call == <<VCall("update_shape_item", fields, c.miro.access_token)>>
         IN IF v.api THEN Eff(NoExc, c, f, call)
            ELSE Eff(<<"ApiException", "update_shape_item failed">>, c, f, call)

\* MiroClient.delete_shape
delete_shape(c, f, v) ==
    IF _get_api(c) # NoExc THEN Eff(_get_api(c), c, f, <<>>)
    ELSE LET call == <<VCall("delete_shape_item", {}, c.miro.access_token)>>
         IN IF v.api THEN Eff(NoExc, c, f, call)
            ELSE Eff(<<"ApiException", "delete_shape_item failed">>, c, f, call)

\* n times the same vendor call
Repeat(call, n) == [i \in 1..n |-> call]

\* MiroClient.group_shapes for a list of n item ids; the vendor either serves
\* every call of the operation or fails the first one
group_shapes(c, f, n, v) ==
    IF _get_api(c) # NoExc THEN Eff(_get_api(c), c, f, <<>>)
    ELSE LET t == c.miro.access_token
         IN IF ~v.api
            THEN Eff(<<"ValueError", "Item not found on board">>, c, f,
                     << VCall("get_shape_item", {}, t), VCall("get_frame_item", {}, t),
                        VCall("get_items", {}, t) >>)
            ELSE Eff(NoExc, c, f,
                     Repeat(VCall("get_shape_item", {}, t), n)
                     \o << VCall("create_frame_item", {"position", "geometry"}, t) >>
                     \o Repeat(VCall("update_item_position_or_parent", {"parent"}, t), n))

\* MiroClient.ungroup_shapes; the vendor either serves every call of the
\* operation or fails the first one
ungroup_shapes(c, f, v) ==
    IF _get_api(c) # NoExc THEN Eff(_get_api(c), c, f, <<>>)
    ELSE LET t == c.miro.access_token
         IN IF ~v.api
            THEN Eff(<<"ValueError", "Frame not found">>, c, f,
                     << VCall("get_frame_item", {}, t) >>)
            ELSE Eff(NoExc, c, f,
                     << VCall("get_frame_item", {}, t), VCall("get_items", {}, t),
                        VCall("delete_frame_item", {}, t) >>)


\* a Python value given to convert_to_dict
\*   k         "none", "prim" (str, int, float, bool), "datetime", "typing" (a
\*             typing construct), "cyclic" (a list that contains itself),
\*             "dict", "list", "tuple", "set", "obj" (any other object), and
\*             "json" (what model_dump(mode='json') returns)
\*   key       of a dict: its keys are all "str" or all "tuple"
\*   items     the values of a container or the attributes in the __dict__ of
\*             an object, each [private, v] (private: the name starts with '_')
\*   dump      of an object: "none" it has no model_dump, "json"
\*             model_dump(mode='json') returns, "python" that raises and
\*             model_dump() returns, "throws" both raise, "access_raises"
\*             model_dump is a property that raises another exception than
\*             AttributeError
\*   v1        of an object: "none" it has no dict(), "natives" dict() returns,
\*             "throws" dict() raises
\*   slots     the object has no __dict__
\*   strfails  str(obj) raises
PV(k, key, items, dump, v1, slots, strfails) ==
    [k |-> k, key |-> key, items |-> items, dump |-> dump, v1 |-> v1, slots |-> slots,
     strfails |-> strfails]

\* a value without parts
Leaf(k) == PV(k, "str", <<>>, "none", "none", FALSE, FALSE)

\* a container
Container(k, key, items) == PV(k, key, items, "none", "none", FALSE, FALSE)

\* convert_to_dict returns val / raises e
Ret(val) == [exc |-> NoExc, val |-> val]
Raise(e) == [exc |-> e, val |-> Leaf("none")]

\* what obj.model_dump() and obj.dict() return: the fields as Python values
NativeDict(obj) == Container("dict", "str", obj.items)

\* the exception of the first conversion in rs that raised, NoExc if none did
RECURSIVE FirstExc(_)
FirstExc(rs) ==
    IF rs = <<>> THEN NoExc
    ELSE IF Head(rs).exc # NoExc THEN Head(rs).exc
    ELSE FirstExc(Tail(rs))

RECURSIVE convert_to_dict(_)
RECURSIVE ConvertAttrs(_)

\* convert_to_dict, lines 55-63: the result dict for the attributes
ConvertAttrs(attrs) ==
    IF attrs = <<>> THEN <<>>
    ELSE LET a == Head(attrs)
             rest == ConvertAttrs(Tail(attrs))
             r == convert_to_dict(a.v)
         IN IF a.private THEN rest
            ELSE IF r.exc = NoExc THEN <<[private |-> FALSE, v |-> r.val]>> \o rest
            ELSE IF ~a.v.strfails THEN <<[private |-> FALSE, v |-> Leaf("prim")]>> \o rest
            ELSE rest

\* convert_to_dict(obj)
convert_to_dict(obj) ==
    IF obj.k = "none" THEN Ret(Leaf("none"))
    ELSE IF obj.k = "typing" THEN Ret(Leaf("prim"))
    ELSE IF obj.k = "obj" /\ obj.dump = "access_raises"
    THEN Raise(<<"ValueError", "raised by the property model_dump">>)
    ELSE IF obj.k = "obj" /\ obj.dump = "json" THEN Ret(Leaf("json"))
    ELSE IF obj.k = "obj" /\ obj.dump = "python" THEN Ret(NativeDict(obj))
    ELSE IF obj.k = "obj" /\ obj.v1 = "natives" THEN Ret(NativeDict(obj))
    ELSE IF obj.k \in {"prim", "json"} THEN Ret(obj)
    ELSE IF obj.k = "datetime" THEN Ret(Leaf("prim"))
    ELSE IF obj.k \in {"dict", "list", "tuple", "set"}
    THEN LET rs == [i \in 1..Len(obj.items) |-> convert_to_dict(obj.items[i].v)]
             vals == [i \in 1..Len(obj.items) |-> [private |-> FALSE, v |-> rs[i].val]]
         IN IF FirstExc(rs) # NoExc THEN Raise(FirstExc(rs))
            ELSE IF obj.k = "dict" THEN Ret(Container("dict", obj.key, vals))
            ELSE Ret(Container("list", "str", vals))
    ELSE IF obj.k = "cyclic"
    THEN Raise(<<"RecursionError", "maximum recursion depth exceeded">>)
    ELSE IF obj.k = "obj" /\ ~obj.slots
    THEN Ret(Container("dict", "str", ConvertAttrs(obj.items)))
    ELSE IF obj.strfails THEN Ret(Leaf("none"))
    ELSE Ret(Leaf("prim"))

\* json.dumps(val) returns
RECURSIVE JsonSerializable(_)
JsonSerializable(val) ==
    CASE val.k \in {"none", "prim", "json"} -> TRUE
      [] val.k \in {"list", "tuple"} ->
            \A i \in 1..Len(val.items) : JsonSerializable(val.items[i].v)
      [] val.k = "dict" ->
            /\ val.key = "str"
            /\ \A i \in 1..Len(val.items) : JsonSerializable(val.items[i].v)
      [] OTHER -> FALSE

\* an item as group_shapes reads it from convert_to_dict(item): position x, y
\* and geometry width, height
Item(x, y, width, height) == [x |-> x, y |-> y, width |-> width, height |-> height]

\* min(...) of a non-empty sequence of numbers
RECURSIVE MinOf(_)
MinOf(ns) ==
    IF Len(ns) = 1 THEN ns[1]
    ELSE LET m == MinOf(Tail(ns)) IN IF ns[1] <= m THEN ns[1] ELSE m

\* max(...) of a non-empty sequence of numbers
RECURSIVE MaxOf(_)
MaxOf(ns) ==
    IF Len(ns) = 1 THEN ns[1]
    ELSE LET m == MaxOf(Tail(ns)) IN IF ns[1] >= m THEN ns[1] ELSE m

\* lines 344-361 with the width and height taken from the origin: max_x and
\* max_y are used where max_x - min_x and max_y - min_y belong (C19 must notice)
frame_data_from_origin(items) ==
    LET idx == 1..Len(items)
    IN [x |-> MinOf([i \in idx |-> items[i].x]),
        y |-> MinOf([i \in idx |-> items[i].y]),
        width |-> MaxOf([i \in idx |-> items[i].x + items[i].width]),
        height |-> MaxOf([i \in idx |-> items[i].y + items[i].height])]

\* MiroClient.group_shapes, lines 344-361: position and geometry of frame_data
\* for the items resolved
frame_data(items) ==
    LET idx == 1..Len(items)
        min_x == MinOf([i \in idx |-> items[i].x])
        min_y == MinOf([i \in idx |-> items[i].y])
        max_x == MaxOf([i \in idx |-> items[i].x + items[i].width])
        max_y == MaxOf([i \in idx |-> items[i].y + items[i].height])
    IN [x |-> min_x, y |-> min_y, width |-> max_x - min_x, height |-> max_y - min_y]

(***************************************************************************)
(* tools/*.py: the handlers                                                *)
(***************************************************************************)
ArgKeys == {"board_id", "shape_type", "x", "y", "width", "height", "fillColor",
            "borderColor", "borderWidth", "content", "item_id", "item_ids",
            "group_id", "code"}

\* the 'arguments' of a tools/call: a dict (m gives every key's value, Absent
\* for a key that is not there) or a JSON value of another type
ArgsDict(m) == [t |-> "dict", m |-> m]
NoArgs == [k \in ArgKeys |-> Absent]
ArgsOfType(t) == [t |-> t, m |-> NoArgs]

\* arguments.get(k)
Get(a, k) == IF a.m[k].t = "absent" THEN None ELSE a.m[k]

\* v is None
IsNone(v) == v.t \in {"absent", "null"}

\* arguments.get on a value that is no dict
AttrErr == <<"AttributeError", "object has no attribute 'get'">>

\* what a handler did: the exception it raised (NoExc if it returned), the
\* payload it returned, the session and token file afterwards, the client
\* method it called ("" for none) and the vendor calls made
HR(exc, payload, c, f, op, calls) ==
    [exc |-> exc, payload |-> payload, client |-> c, file |-> f, op |-> op, calls |-> calls]

\* {'error': msg}
ErrorPayload(msg) == <<"error", msg>>

\* a handler's "except Exception as e: return {'error': str(e)}" around a client call
Caught(e, op, success) ==
    HR(NoExc, IF e.exc # NoExc THEN ErrorPayload(e.exc[2]) ELSE success,
       e.client, e.file, op, e.calls)

\* shape_tools._build_style_dict: the keys of the style dict, or the exception
\* float() raises
_build_style_dict(a) ==
    LET bw == Get(a, "borderWidth")
    IN [exc |-> IF ~IsNone(bw) /\ ~FloatOk(bw) THEN FloatExc(bw) ELSE NoExc,
        style |-> (IF Truthy(Get(a, "fillColor")) THEN {"fillColor"} ELSE {})
                  \cup (IF Truthy(Get(a, "borderColor")) THEN {"borderColor"} ELSE {})
                  \cup (IF ~IsNone(bw) THEN {"borderWidth"} ELSE {})]

\* the first of the values vs that float() rejects, None if it accepts all
RECURSIVE FirstBadFloat(_)
FirstBadFloat(vs) ==
    IF vs = <<>> THEN None
    ELSE IF ~FloatOk(Head(vs)) THEN Head(vs)
    ELSE FirstBadFloat(Tail(vs))

\* shape_tools.handle_tool_call, branch create_shape
shape_create(a, c, f, v) ==
    LET x == Get(a, "x")
        y == Get(a, "y")
        width == Get(a, "width")
        height == Get(a, "height")
        bad == FirstBadFloat(<<x, y, width, height>>)
        st == _build_style_dict(a)
    IN IF ~(Truthy(Get(a, "board_id")) /\ Truthy(Get(a, "shape_type")) /\ ~IsNone(x)
            /\ ~IsNone(y) /\ Truthy(width) /\ Truthy(height))
       THEN HR(NoExc, ErrorPayload("board_id, shape_type, x, y, width, and height are required"),
               c, f, "", <<>>)
       ELSE IF bad # None THEN HR(NoExc, ErrorPayload(FloatExc(bad)[2]), c, f, "", <<>>)
       ELSE IF st.exc # NoExc THEN HR(NoExc, ErrorPayload(st.exc[2]), c, f, "", <<>>)
       ELSE Caught(create_shape(c, f, st.style, Get(a, "content"), v),
                   "create_shape", <<"success", "shape">>)

\* the keys among ks whose argument is not None
Given(a, ks) == {k \in ks : ~IsNone(Get(a, k))}

\* shape_tools.handle_tool_call, branch update_shape
shape_update(a, c, f, v) ==
    LET bad == FirstBadFloat(<< IF IsNone(Get(a, "x")) THEN Num(0) ELSE Get(a, "x"),
                                IF IsNone(Get(a, "y")) THEN Num(0) ELSE Get(a, "y"),
                                IF IsNone(Get(a, "width")) THEN Num(0) ELSE Get(a, "width"),
                                IF IsNone(Get(a, "height")) THEN Num(0) ELSE Get(a, "height") >>)
        st == _build_style_dict(a)
    IN IF ~Truthy(Get(a, "board_id")) \/ ~Truthy(Get(a, "item_id"))
       THEN HR(NoExc, ErrorPayload("board_id and item_id are required"), c, f, "", <<>>)
       ELSE IF bad # None THEN HR(FloatExc(bad), <<>>, c, f, "", <<>>)
       ELSE IF st.exc # NoExc THEN HR(NoExc, ErrorPayload(st.exc[2]), c, f, "", <<>>)
       ELSE Caught(update_shape(c, f, Given(a, {"x", "y"}), Given(a, {"width", "height"}),
                                st.style, Get(a, "content"), v),
                   "update_shape", <<"success", "shape">>)

\* shape_tools.handle_tool_call, branch delete_shape
shape_delete(a, c, f, v) ==
    IF ~Truthy(Get(a, "board_id")) \/ ~Truthy(Get(a, "item_id"))
    THEN HR(NoExc, ErrorPayload("board_id and item_id are required"), c, f, "", <<>>)
    ELSE Caught(delete_shape(c, f, v), "delete_shape",
                <<"success", "Shape deleted successfully">>)

\* shape_tools.handle_tool_call
shape_tools(tool_name, a, c, f, v) ==
    CASE tool_name \in {"create_shape", "update_shape", "delete_shape"} /\ a.t # "dict" ->
            HR(AttrErr, <<>>, c, f, "", <<>>)
      [] tool_name = "create_shape" /\ a.t = "dict" -> shape_create(a, c, f, v)
      [] tool_name = "update_shape" /\ a.t = "dict" -> shape_update(a, c, f, v)
      [] tool_name = "delete_shape" /\ a.t = "dict" -> shape_delete(a, c, f, v)
      [] OTHER -> HR(NoExc, ErrorPayload("Unknown shape tool: " \o tool_name), c, f, "", <<>>)

\* the branch group_shapes without the test of line 47: whatever item_ids
\* is goes to the client (C18 must notice)
group_group_unchecked(a, c, f, v) ==
    IF ~Truthy(Get(a, "board_id"))
    THEN HR(NoExc, ErrorPayload("board_id parameter is required"), c, f, "", <<>>)
    ELSE Caught(group_shapes(c, f, Get(a, "item_ids").n, v), "group_shapes",
                <<"success", "group">>)

\* group_tools.handle_tool_call, branch group_shapes
group_group(a, c, f, v) ==
    LET item_ids == Get(a, "item_ids")
    IN IF ~Truthy(Get(a, "board_id"))
       THEN HR(NoExc, ErrorPayload("board_id parameter is required"), c, f, "", <<>>)
       ELSE IF ~Truthy(item_ids) \/ item_ids.t # "list" \/ item_ids.n < 2
       THEN HR(NoExc, ErrorPayload("item_ids must be a list with at least 2 item IDs"),
               c, f, "", <<>>)
       ELSE Caught(group_shapes(c, f, item_ids.n, v), "group_shapes",
                   <<"success", "group">>)

\* group_tools.handle_tool_call, branch ungroup_shapes
group_ungroup(a, c, f, v) ==
    IF ~Truthy(Get(a, "board_id")) \/ ~Truthy(Get(a, "group_id"))
    THEN HR(NoExc, ErrorPayload("board_id and group_id are required"), c, f, "", <<>>)
    ELSE Caught(ungroup_shapes(c, f, v), "ungroup_shapes", <<"success", "ungrouped">>)

\* group_tools.handle_tool_call
group_tools(tool_name, a, c, f, v) ==
    CASE tool_name \in {"group_shapes", "ungroup_shapes"} /\ a.t # "dict" ->
            HR(AttrErr, <<>>, c, f, "", <<>>)
      [] tool_name = "group_shapes" /\ a.t = "dict" -> group_group(a, c, f, v)
      [] tool_name = "ungroup_shapes" /\ a.t = "dict" -> group_ungroup(a, c, f, v)
      [] OTHER -> HR(NoExc, ErrorPayload("Unknown group tool: " \o tool_name), c, f, "", <<>>)

\* auth_tools.handle_tool_call; hid names a new live handle
auth_tools(tool_name, a, c, f, v, hid) ==
    CASE tool_name = "get_auth_url" ->
            Caught(get_auth_url(c, f, hid), "get_auth_url", <<"success", "auth_url">>)
      [] tool_name = "exchange_auth_code" /\ a.t # "dict" -> HR(AttrErr, <<>>, c, f, "", <<>>)
      [] tool_name = "exchange_auth_code" /\ a.t = "dict" ->
            IF ~Truthy(Get(a, "code"))
            THEN HR(NoExc, ErrorPayload("code parameter is required"), c, f, "", <<>>)
            ELSE Caught(exchange_code_for_token(c, f, Get(a, "code"), v),
                        "exchange_code_for_token",
                        <<"success", "Successfully authenticated with Miro">>)
      [] OTHER -> HR(NoExc, ErrorPayload("Unknown auth tool: " \o tool_name), c, f, "", <<>>)

\* board_tools.handle_tool_call
board_tools(tool_name, a, c, f, v) ==
    CASE tool_name = "get_board" /\ a.t # "dict" -> HR(AttrErr, <<>>, c, f, "", <<>>)
      [] tool_name = "get_board" /\ a.t = "dict" ->
            IF ~Truthy(Get(a, "board_id"))
            THEN HR(NoExc, ErrorPayload("board_id is required"), c, f, "", <<>>)
            ELSE Caught(get_board(c, f, v), "get_board", <<"success", "board">>)
      [] OTHER -> HR(NoExc, ErrorPayload("Unknown board tool: " \o tool_name), c, f, "", <<>>)


(***************************************************************************)
(* server.py                                                               *)
(***************************************************************************)
\* get_miro_client without the test of lines 117-118: every call constructs
\* a session (C10 must notice)
get_miro_client_eager(client, cfg, f, inst) ==
    LET e == MiroClient(cfg, f, inst)
    IN IF e.exc # NoExc THEN Eff(e.exc, NoClient, e.file, <<>>) ELSE e

\* main.get_miro_client; inst names the object a construction would create.
\* An exception of MiroClient() is raised again and miro_client stays None.
get_miro_client(client, cfg, f, inst) ==
    IF client.inst = 0
    THEN LET e == MiroClient(cfg, f, inst)
         IN IF e.exc # NoExc THEN Eff(e.exc, NoClient, e.file, <<>>) ELSE e
    ELSE Eff(NoExc, client, f, <<>>)

\* the dict handle_tools_call returns: 'isError' is there (and True) or not
ToolResult(isError, text) == [isError |-> isError, text |-> text]
NoResult == ToolResult(FALSE, <<>>)

\* lines 33-40 without the 'isError' key (C5 must notice)
unknown_tool_plain(tool_name) == ToolResult(FALSE, <<"Unknown tool: ", PyStr(tool_name)>>)

\* handle_tools_call, lines 33-40
unknown_tool_result(tool_name) == ToolResult(TRUE, <<"Unknown tool: ", PyStr(tool_name)>>)

\* handle_tools_call without its except clause: the exception e leaves it
\* (C6 must notice)
dispatch_reraise(tool_name, e) == [exc |-> e, result |-> NoResult]

\* handle_tools_call, lines 67-74: what the except clause makes of the
\* exception e: the exception that leaves handle_tools_call and the dict returned
dispatch_except(tool_name, e) ==
    [exc |-> NoExc,
     result |-> ToolResult(TRUE, <<"Error executing tool ", tool_name, ": ", e[2]>>)]

\* handle_tools_call, lines 45-60: the handler the tool is routed to
route(tool_name, a, c, f, v, hid) ==
    CASE tool_name \in {"create_shape", "update_shape", "delete_shape"} ->
            shape_tools(tool_name, a, c, f, v)
      [] tool_name \in {"group_shapes", "ungroup_shapes"} ->
            group_tools(tool_name, a, c, f, v)
      [] tool_name \in {"get_auth_url", "exchange_auth_code"} ->
            auth_tools(tool_name, a, c, f, v, hid)
      [] tool_name = "get_board" -> board_tools(tool_name, a, c, f, v)
      [] OTHER -> HR(NoExc, <<"no handler">>, c, f, "", <<>>)

\* no handler was called
NoHandler(c, f) == [ran |-> FALSE] @@ HR(NoExc, <<>>, c, f, "", <<>>)

\* the handler was called and did h
Ran(h) == [ran |-> TRUE] @@ h

\* what handle_tools_call did:
\*   exc         the exception that left it (NoExc if it returned)
\*   result      the dict it returned
\*   client, file  the variable miro_client and the token file afterwards
\*   built       whether MiroClient() was constructed successfully
\*   reached     the exception that reached its except clause (NoExc for none)
\*   handler     whether a handler of tools/*.py was called, and what it did
TC(exc, result, c, f, built, reached, h) ==
    [exc |-> exc, result |-> result, client |-> c, file |-> f, built |-> built,
     reached |-> reached, handler |-> h]

\* handle_tools_call(tool_name, arguments, get_miro_client)
handle_tools_call(tools, tool_name, a, client, cfg, f, v, fresh) ==
    IF ~Hashable(tool_name)
    THEN TC(<<"TypeError", "unhashable type">>, NoResult, client, f, FALSE, NoExc,
            NoHandler(client, f))
    ELSE IF ~InTools(tools, tool_name)
    THEN TC(NoExc, unknown_tool_result(tool_name), client, f, FALSE, NoExc,
            NoHandler(client, f))
    ELSE LET g == get_miro_client(client, cfg, f, fresh)
             built == client.inst = 0 /\ g.exc = NoExc
         IN IF g.exc # NoExc
            THEN LET x == dispatch_except(tool_name.s, g.exc)
                 IN TC(x.exc, x.result, g.client, g.file, FALSE, g.exc,
                       NoHandler(g.client, g.file))
            ELSE LET h == route(tool_name.s, a, g.client, g.file, v, fresh)
                 IN IF h.exc # NoExc
                    THEN LET x == dispatch_except(tool_name.s, h.exc)
                         IN TC(x.exc, x.result, h.client, h.file, built, h.exc, Ran(h))
                    ELSE IF h.payload = <<"no handler">>
                    THEN TC(NoExc, ToolResult(TRUE, <<"No handler for tool: ", tool_name.s>>),
                            h.client, h.file, built, NoExc, NoHandler(h.client, h.file))
                    ELSE TC(NoExc, ToolResult(FALSE, <<"json">> \o h.payload),
                            h.client, h.file, built, NoExc, Ran(h))

\* a JSON-RPC response written to stdout
\*   kind "result": isError and body are the tool result (body names the
\*                  result of initialize and tools/list)
\*   kind "error":  code and body are the error's code and message
Response(id, kind, code, isError, body) ==
    [id |-> id, kind |-> kind, code |-> code, isError |-> isError, body |-> body]

\* an input line
\*   kind "blank"    empty after strip()
\*   kind "garbage"  json.loads raises JSONDecodeError
\*   kind "value"    valid JSON that is not an object
\*   kind "object"   a JSON object: its 'id', 'method', the type of its
\*                   'params' and, for a dict, the 'name' and 'arguments' in it
Line(kind, id, method, params, name, a) ==
    [kind |-> kind, id |-> id, method |-> method, params |-> params,
     name |-> name, arguments |-> a]

\* request.get('id')
request_id(line) == IF line.id.t = "absent" THEN None ELSE line.id

\* lines 91-102 without the test of the id: the error is returned for a
\* notification too (C4 must notice)
method_not_found_always(rid, method) ==
    << Response(rid, "error", -32601, FALSE, <<"Method not found: ", PyStr(method)>>) >>

\* process_request, lines 91-102: the return value for an unrecognized
\* method, a sequence of at most one response (<<>> is None)
method_not_found(rid, method) ==
    IF rid # None
    THEN << Response(rid, "error", -32601, FALSE, <<"Method not found: ", PyStr(method)>>) >>
    ELSE <<>>

\* process_request, lines 104-110
result_response(rid, isError, body) ==
    IF rid # None THEN << Response(rid, "result", 0, isError, body) >> ELSE <<>>

\* what process_request did: the exception that left it, the value it
\* returned (<<>> is None) and what the tool call in it did
PR(exc, response, tc) == [exc |-> exc, response |-> response, tc |-> tc]

\* no tool call was made
NoCall(client, f) == TC(NoExc, NoResult, client, f, FALSE, NoExc, NoHandler(client, f))

\* process_request, lines 83-84 and 104-110: method 'initialize'
process_initialize(line, client, f) ==
    PR(NoExc, result_response(request_id(line), FALSE, <<"initialize", "2024-11-05">>),
       NoCall(client, f))

\* process_request, lines 85-86 and 104-110: method 'tools/list'
process_tools_list(line, client, f) ==
    PR(NoExc, result_response(request_id(line), FALSE, <<"tools/list">>), NoCall(client, f))

\* process_request, lines 87-90 and 104-110: method 'tools/call'
process_tools_call(tools, line, client, cfg, f, v, fresh) ==
    IF line.params \notin {"absent", "dict"}
    THEN PR(AttrErr, <<>>, NoCall(client, f))
    ELSE LET a == IF line.params = "dict" /\ line.arguments.t # "absent"
                  THEN line.arguments ELSE ArgsDict(NoArgs)
             name == IF line.params = "dict" /\ line.name.t # "absent"
                     THEN line.name ELSE None
             tc == handle_tools_call(tools, name, a, client, cfg, f, v, fresh)
         IN IF tc.exc # NoExc THEN PR(tc.exc, <<>>, tc)
            ELSE PR(NoExc, result_response(request_id(line), tc.result.isError,
                                           tc.result.text), tc)

\* process_request, lines 91-102: any other method
process_other(line, client, f) ==
    PR(NoExc, method_not_found(request_id(line), line.method), NoCall(client, f))

\* the methods process_request knows
Methods == {Str("initialize"), Str("tools/list"), Str("tools/call")}

\* main without the clause of lines 145-155: JSONDecodeError is handled by
\* the clause of lines 156-169 (C3 must notice)
parse_error_uncaught ==
    << Response(None, "error", -32603, FALSE, <<"Internal error: ", "msg">>) >>

\* main, lines 145-155: the response to a line json.loads rejects
parse_error_response == << Response(None, "error", -32700, FALSE, <<"Parse error: ", "msg">>) >>

\* main without the clause of lines 156-169: the exception e ends the loop
\* and nothing is written (C2 must notice)
main_uncaught(e) == [out |-> <<>>, alive |-> FALSE]

\* main, lines 156-169: what the loop does with an exception e of a line's
\* handling: the responses written and whether the loop goes on
main_except(e) ==
    [out |-> << Response(None, "error", -32603, FALSE, <<"Internal error: ", e[2]>>) >>,
     alive |-> TRUE]


(***************************************************************************)
(* The state of one server process.                                        *)
(***************************************************************************)
VARIABLES
    pc,           \* where main() is: "head" of the loop, or "done" with a line
    nlines,       \* input lines read so far
    alive,        \* the loop of main() is still running
    TOOLS,        \* tool_registry.TOOLS, in insertion order
    config,       \* the environment config.py read
    tokenFile,    \* the content of TOKEN_STORAGE_FILE
    miro_client,  \* main's variable miro_client
    constructed,  \* how many times MiroClient() has returned an object
    last,         \* the line of this iteration (NoLine at the head of the loop)
    out,          \* the responses written to stdout in this iteration
    tc,           \* what handle_tools_call did in this iteration
    escaped,      \* the exception that reached main's "except Exception" in it
    knownCalls,   \* history: tools/call requests of a registered tool so far
    failures,     \* history: lines so far that ended in a JSON-RPC error
    pure          \* the call of a function of miro_client.py made outside a session

vars == <<pc, nlines, alive, TOOLS, config, tokenFile, miro_client, constructed,
          last, out, tc, escaped, knownCalls, failures, pure>>

\* no function is called outside a session
NoPure == [op |-> "none"]

NoLine == Line("none", Absent, Absent, "absent", Absent, ArgsOfType("absent"))

Init ==
    /\ pc = "head"
    /\ nlines = 0
    /\ alive = TRUE
    /\ TOOLS = ImportedTools
    /\ config \in Configs
    /\ tokenFile \in InitialFiles
    /\ miro_client = NoClient
    /\ constructed = 0
    /\ last = NoLine
    /\ out = <<>>
    /\ tc = NoCall(NoClient, tokenFile)
    /\ escaped = NoExc
    /\ knownCalls = 0
    /\ failures = 0
    /\ pure = NoPure

(***************************************************************************)
(* The inputs.                                                             *)
(***************************************************************************)
\* the 'id' of a request: none, null, the numbers 0 and 1, a string
Ids == {Absent, None, Num(0), Str("a")}

ToolNames == {"create_shape", "update_shape", "delete_shape", "group_shapes",
              "ungroup_shapes", "get_auth_url", "exchange_auth_code", "get_board"}

\* arguments that pass every check of the tool's handler
BaseArgs(name) ==
    CASE name = "create_shape" ->
            [NoArgs EXCEPT !["board_id"] = Str("b1"), !["shape_type"] = Str("rectangle"),
                           !["x"] = Num(0), !["y"] = Num(2),
                           !["width"] = Num(2), !["height"] = Num(2)]
      [] name \in {"update_shape", "delete_shape"} ->
            [NoArgs EXCEPT !["board_id"] = Str("b1"), !["item_id"] = Str("i1")]
      [] name = "group_shapes" ->
            [NoArgs EXCEPT !["board_id"] = Str("b1"), !["item_ids"] = List(2)]
      [] name = "ungroup_shapes" ->
            [NoArgs EXCEPT !["board_id"] = Str("b1"), !["group_id"] = Str("g1")]
      [] name = "exchange_auth_code" -> [NoArgs EXCEPT !["code"] = Str("c1")]
      [] name = "get_board" -> [NoArgs EXCEPT !["board_id"] = Str("b1")]
      [] OTHER -> NoArgs

\* the parameters of a tool, as its descriptor lists them
ParamKeys(name) ==
    LET d == ImportedTools[IndexOfName(ImportedTools, name, 1)]
    IN {d.properties[i].key : i \in 1..Len(d.properties)}

NumericKeys == {"x", "y", "width", "height", "borderWidth"}

\* the values tried for one argument
TestValues(k) ==
    IF k \in NumericKeys
    THEN {Absent, None, Str(""), Str("abc"), Str("7"), Num(0), Num(2)}
    ELSE IF k = "item_ids"
    THEN {Absent, Str("abc"), Num(2), List(0), List(1), List(2)}
    ELSE {Absent, None, Str(""), Str("v")}

\* the base arguments with one argument changed
ArgVariants(name) ==
    UNION {{ArgsDict([BaseArgs(name) EXCEPT ![k] = val]) : val \in TestValues(k)} :
              k \in ParamKeys(name)}

\* a vendor that serves every call and accepts the code
GoodVendor == [api |-> TRUE, exchange |-> TRUE, tok |-> "t1", refresh |-> "r1", save |-> "ok"]

\* the vendor behaviours that make a difference to a call of the tool
VendorsFor(name) ==
    CASE name = Str("exchange_auth_code") ->
            {[GoodVendor EXCEPT !.exchange = FALSE]}
            \cup {[GoodVendor EXCEPT !.tok = p[1], !.refresh = p[2], !.save = sv] :
                    p \in {<<"t1", "r1">>, <<"t2", NoTok>>},
                    sv \in {"ok", "open_fails", "write_fails"}}
      [] name \in {Str("create_shape"), Str("update_shape"), Str("delete_shape"),
                   Str("group_shapes"), Str("ungroup_shapes"), Str("get_board")} ->
            {GoodVendor, [GoodVendor EXCEPT !.api = FALSE]}
      [] OTHER -> {GoodVendor}

\* the tools/call requests whose params are a dict
ToolCallLines ==
    \* a known tool with arguments that pass, under every kind of id
    {Line("object", id, Str("tools/call"), "dict", Str(n), ArgsDict(BaseArgs(n))) :
        id \in Ids, n \in ToolNames}
    \* a known tool with one argument changed
    \cup UNION {{Line("object", id, Str("tools/call"), "dict", Str(n), a) :
                    id \in {Absent, Str("a")}, a \in ArgVariants(n)} : n \in ToolNames}
    \* a known tool whose 'arguments' is absent or no dict
    \cup {Line("object", id, Str("tools/call"), "dict", Str(n), ArgsOfType(t)) :
            id \in {Absent, Str("a")}, n \in ToolNames, t \in {"absent", "null", "list"}}
    \* a name that is not registered, or no name
    \cup {Line("object", id, Str("tools/call"), "dict", n, ArgsDict(NoArgs)) :
            id \in Ids, n \in {Str("frobnicate"), Absent, None, Num(5), List(1), Dict}}

\* the tools/call requests whose params are no dict
BadParamsLines ==
    {Line("object", id, Str("tools/call"), p, Absent, ArgsOfType("absent")) :
        id \in Ids, p \in {"absent", "null", "list"}}

\* requests of a method that takes no params into account
PlainLines(methods) ==
    {Line("object", id, m, p, Absent, ArgsOfType("absent")) :
        id \in Ids, m \in methods, p \in {"absent", "dict", "null"}}

(***************************************************************************)
(* One iteration of the loop of main().                                    *)
(***************************************************************************)
\* line 133: the loop is at its head, still running, and there is a line to read
CanRead == pc = "head" /\ alive /\ nlines < MaxLines

\* the line is handled without a call of process_request
NoRequest(line, responses, e, goesOn) ==
    /\ pc' = "done"
    /\ nlines' = nlines + 1
    /\ last' = line
    /\ out' = responses
    /\ escaped' = e
    /\ alive' = goesOn
    /\ tc' = NoCall(miro_client, tokenFile)
    /\ failures' = IF responses # <<>> THEN failures + 1 ELSE failures
    /\ UNCHANGED <<TOOLS, config, tokenFile, miro_client, constructed, knownCalls, pure>>

\* lines 134-136: a blank line is skipped
BlankLine ==
    /\ CanRead
    /\ NoRequest(Line("blank", Absent, Absent, "absent", Absent, ArgsOfType("absent")),
                 <<>>, NoExc, TRUE)

\* lines 139, 145-155: json.loads raises JSONDecodeError
GarbageLine ==
    /\ CanRead
    /\ NoRequest(Line("garbage", Absent, Absent, "absent", Absent, ArgsOfType("absent")),
                 parse_error_response, NoExc, TRUE)

\* lines 139-140, 156-169: the line is JSON but no object, request.get raises
ValueLine ==
    /\ CanRead
    /\ NoRequest(Line("value", Absent, Absent, "absent", Absent, ArgsOfType("absent")),
                 main_except(AttrErr).out, AttrErr, main_except(AttrErr).alive)

\* lines 140-144 and 156-169: what main does with the outcome pr of
\* process_request for the line
Finish(line, pr) ==
    /\ pc' = "done"
    /\ nlines' = nlines + 1
    /\ last' = line
    /\ tc' = pr.tc
    /\ miro_client' = pr.tc.client
    /\ tokenFile' = pr.tc.file
    /\ constructed' = IF pr.tc.built THEN constructed + 1 ELSE constructed
    /\ escaped' = pr.exc
    /\ out' = IF pr.exc # NoExc THEN main_except(pr.exc).out ELSE pr.response
    /\ alive' = IF pr.exc # NoExc THEN main_except(pr.exc).alive ELSE TRUE
    /\ knownCalls' = IF line.method = Str("tools/call") /\ line.params = "dict"
                        /\ InTools(TOOLS, line.name)
                     THEN knownCalls + 1 ELSE knownCalls
    /\ failures' = IF pr.exc # NoExc \/ line.method \notin Methods
                   THEN failures + 1 ELSE failures
    /\ UNCHANGED <<TOOLS, config, pure>>

\* the requests read: every method, id and kind of params
RequestLines ==
    PlainLines({Str("initialize"), Str("tools/list"), Absent, None, Str("foo"),
                Str("notifications/initialized")})
    \cup ToolCallLines \cup BadParamsLines

\* a request with method 'initialize'
Initialize ==
    /\ CanRead
    /\ \E line \in RequestLines :
          /\ line.method = Str("initialize")
          /\ \E pr \in {process_initialize(line, miro_client, tokenFile)} : Finish(line, pr)

\* a request with method 'tools/list'
ToolsList ==
    /\ CanRead
    /\ \E line \in RequestLines :
          /\ line.method = Str("tools/list")
          /\ \E pr \in {process_tools_list(line, miro_client, tokenFile)} : Finish(line, pr)

\* a request with method 'tools/call'
ToolsCall ==
    /\ CanRead
    /\ \E line \in RequestLines :
          /\ line.method = Str("tools/call")
          /\ \E v \in VendorsFor(line.name) :
                \E pr \in {process_tools_call(TOOLS, line, miro_client, config, tokenFile,
                                               v, nlines + 1)} : Finish(line, pr)

\* a request with any other method, or none
OtherMethod ==
    /\ CanRead
    /\ \E line \in RequestLines :
          /\ line.method \notin Methods
          /\ \E pr \in {process_other(line, miro_client, tokenFile)} : Finish(line, pr)

\* line 133: the loop goes back to its head; the iteration's locals are gone
NextIteration ==
    /\ pc = "done"
    /\ pc' = "head"
    /\ last' = NoLine
    /\ out' = <<>>
    /\ tc' = NoCall(miro_client, tokenFile)
    /\ escaped' = NoExc
    /\ UNCHANGED <<nlines, alive, TOOLS, config, tokenFile, miro_client, constructed,
                   knownCalls, failures, pure>>

Next ==
    \/ NextIteration
    \/ BlankLine
    \/ GarbageLine
    \/ ValueLine
    \/ Initialize
    \/ ToolsList
    \/ ToolsCall
    \/ OtherMethod

Spec == Init /\ [][Next]_vars


(***************************************************************************)
(* group_shapes' frame for given items, outside a session.                 *)
(***************************************************************************)
\* the server does nothing while a function is looked at on its own
ServerIdle ==
    /\ pc = "pure"
    /\ nlines = 0
    /\ alive = TRUE
    /\ TOOLS = ImportedTools
    /\ config = [client_id |-> TRUE, client_secret |-> TRUE]
    /\ tokenFile = NoFile
    /\ miro_client = NoClient
    /\ constructed = 0
    /\ last = NoLine
    /\ out = <<>>
    /\ tc = NoCall(NoClient, NoFile)
    /\ escaped = NoExc
    /\ knownCalls = 0
    /\ failures = 0

serverVars == <<pc, nlines, alive, TOOLS, config, tokenFile, miro_client, constructed,
                last, out, tc, escaped, knownCalls, failures>>

\* coordinates and sizes of the items on a board
Coords == {-5, 0, 5, 20}
Sizes == {3, 10}

Items == {Item(x, y, w, h) : x \in Coords, y \in Coords, w \in Sizes, h \in Sizes}

\* the non-empty lists of items group_shapes resolves
ItemLists == UNION {[1..n -> Items] : n \in 1..MaxItems}

InitFrame ==
    /\ ServerIdle
    /\ pure \in {[op |-> "items", items |-> l] : l \in ItemLists}

\* group_shapes computes frame_data for the items
GroupFrame ==
    /\ pure.op = "items"
    /\ pure' = [op |-> "group_shapes", items |-> pure.items, frame |-> frame_data(pure.items)]
    /\ UNCHANGED serverVars

NextFrame == GroupFrame

FrameSpec == InitFrame /\ [][NextFrame]_vars


(***************************************************************************)
(* convert_to_dict for given values, outside a session.                    *)
(***************************************************************************)
\* the objects tried: <<dump, v1, strfails>> of an object with a __dict__
ObjKinds ==
    {<<"json", "none", FALSE>>, <<"access_raises", "none", FALSE>>,
     <<"python", "none", FALSE>>, <<"none", "natives", FALSE>>,
     <<"throws", "natives", FALSE>>}
    \cup {<<d, v, sf>> : d \in {"none", "throws"}, v \in {"none", "throws"}, sf \in BOOLEAN}

\* values without parts: None, primitives, datetimes, typing constructs, a
\* list that contains itself, objects without __dict__
Leaves ==
    {Leaf("none"), Leaf("prim"), Leaf("datetime"), Leaf("typing"), Leaf("cyclic")}
    \cup {PV("obj", "str", <<>>, "none", "none", TRUE, sf) : sf \in BOOLEAN}

\* the sequences of at most MaxWidth elements of S
SeqsUpTo(S) == UNION {[1..n -> S] : n \in 0..MaxWidth}

\* the values nested at most d deep
RECURSIVE PyValues(_)
PyValues(d) ==
    IF d = 0 THEN Leaves
    ELSE LET L == PyValues(d - 1)
             plain == SeqsUpTo({[private |-> FALSE, v |-> x] : x \in L})
             attrs == SeqsUpTo({[private |-> pr, v |-> x] : pr \in BOOLEAN, x \in L})
         IN L \cup {Container("dict", key, its) : key \in {"str", "tuple"}, its \in plain}
              \cup {Container(k, "str", its) : k \in {"list", "tuple", "set"}, its \in plain}
              \cup {PV("obj", "str", its, o[1], o[2], FALSE, o[3]) :
                       o \in ObjKinds, its \in attrs}

InitNormalize ==
    /\ ServerIdle
    /\ pure \in {[op |-> "value", obj |-> o] : o \in PyValues(MaxDepth)}

\* convert_to_dict is applied to the value
Normalize ==
    /\ pure.op = "value"
    /\ pure' = [op |-> "convert_to_dict", obj |-> pure.obj, result |-> convert_to_dict(pure.obj)]
    /\ UNCHANGED serverVars

NextNormalize == Normalize

NormalizeSpec == InitNormalize /\ [][NextNormalize]_vars


(***************************************************************************)
(* group_shapes and ungroup_shapes on a board, in a session whose live     *)
(* handle holds a token (_get_api returns the api).                        *)
(***************************************************************************)
\* the ids a request can name, and the id the vendor gives the frame that
\* group_shapes creates
BoardIds == {"i1", "i2", "g1"}
NewFrameId == "f1"

\* the order in which get_items lists the items
IdOrder == <<"i1", "i2", "g1", "f1">>

\* an item of the board: its type and the id of its parent ("" for none)
BItem(type, parent) == [type |-> type, parent |-> parent]

\* no item has the id
Missing == BItem("missing", "")

\* the boards: g1 may be a frame that holds i1 or i2; f1 does not exist yet
Boards ==
    {b \in [BoardIds \cup {NewFrameId} ->
               {Missing} \cup {BItem(t, p) : t \in {"shape", "frame", "sticky_note"},
                                           p \in {"", "g1"}}] :
        /\ b[NewFrameId] = Missing
        /\ b["g1"].parent = ""
        /\ (\E i \in BoardIds : b[i].parent = "g1") => b["g1"].type = "frame"}

\* a call made to the vendor for the item id ("" for the board)
BCall(name, id) == [call |-> name, id |-> id]

\* what the vendor does during one operation
\*   frame_getter  the api object has a method get_frame_item
\*   get_items, create_frame_item, delete_frame_item  the call succeeds
\*   failAt        the number of the update_item_position_or_parent call that
\*                 fails (0: none fails)
Apis ==
    [frame_getter : BOOLEAN, get_items : BOOLEAN, create_frame_item : BOOLEAN,
     delete_frame_item : BOOLEAN, failAt : 0..MaxItems]

ApiExc(call) == <<"ApiException", call \o " failed">>

\* what an operation did on the board: the exception raised (NoExc if it
\* returned), the value returned, the board afterwards, the vendor calls made
BR(exc, value, board, calls) == [exc |-> exc, value |-> value, board |-> board, calls |-> calls]

\* MiroClient._get_item_from_api: the exception raised (NoExc if the item is
\* returned) and the vendor calls made
_get_item_from_api(api, board, item_id) ==
    LET c1 == <<BCall("get_shape_item", item_id)>>
        c2 == c1 \o (IF api.frame_getter THEN <<BCall("get_frame_item", item_id)>> ELSE <<>>)
        c3 == c2 \o <<BCall("get_items", "")>>
    IN IF board[item_id].type = "shape" THEN [exc |-> NoExc, calls |-> c1]
       ELSE IF api.frame_getter /\ board[item_id].type = "frame"
       THEN [exc |-> NoExc, calls |-> c2]
       ELSE IF ~api.get_items THEN [exc |-> ApiExc("get_items"), calls |-> c3]
       ELSE IF board[item_id] # Missing THEN [exc |-> NoExc, calls |-> c3]
       ELSE [exc |-> <<"ValueError", "Item " \o item_id \o " not found on board">>,
             calls |-> c3]

\* lines 336-339 with an id that cannot be resolved left out of the items
\* instead of ending the call (C23 must notice)
RECURSIVE ResolveSkipping(_, _, _)
ResolveSkipping(api, board, item_ids) ==
    IF item_ids = <<>> THEN [exc |-> NoExc, n |-> 0, calls |-> <<>>]
    ELSE LET r == _get_item_from_api(api, board, Head(item_ids))
             rest == ResolveSkipping(api, board, Tail(item_ids))
         IN [exc |-> NoExc, n |-> rest.n + (IF r.exc = NoExc THEN 1 ELSE 0),
             calls |-> r.calls \o rest.calls]

\* group_shapes, lines 336-339: the loop that resolves the ids: the exception
\* that ended it, the number of items collected and the vendor calls made
RECURSIVE Resolve(_, _, _)
Resolve(api, board, item_ids) ==
    IF item_ids = <<>> THEN [exc |-> NoExc, n |-> 0, calls |-> <<>>]
    ELSE LET r == _get_item_from_api(api, board, Head(item_ids))
         IN IF r.exc # NoExc THEN [exc |-> r.exc, n |-> 0, calls |-> r.calls]
            ELSE LET rest == Resolve(api, board, Tail(item_ids))
                 IN [exc |-> rest.exc, n |-> rest.n + 1, calls |-> r.calls \o rest.calls]

\* the loops of lines 367-368 and 398-400: update_item_position_or_parent sets
\* the parent of each item in turn; k is the number of the next call
RECURSIVE Reparent(_, _, _, _, _)
Reparent(api, board, item_ids, parent, k) ==
    IF item_ids = <<>> THEN [exc |-> NoExc, board |-> board, calls |-> <<>>]
    ELSE LET call == <<BCall("update_item_position_or_parent", Head(item_ids))>>
         IN IF api.failAt = k
            THEN [exc |-> ApiExc("update_item_position_or_parent"), board |-> board,
                  calls |-> call]
            ELSE LET rest == Reparent(api, [board EXCEPT ![Head(item_ids)].parent = parent],
                                      Tail(item_ids), parent, k + 1)
                 IN [rest EXCEPT !.calls = call \o rest.calls]

\* MiroClient.group_shapes, lines 336-370, on the board
group_shapes_board(api, board, item_ids) ==
    LET items == Resolve(api, board, item_ids)
        create == <<BCall("create_frame_item", "")>>
    IN IF items.exc # NoExc THEN BR(items.exc, "", board, items.calls)
       ELSE IF items.n = 0
       THEN BR(<<"ValueError", "No items found to group">>, "", board, items.calls)
       ELSE IF ~api.create_frame_item
       THEN BR(ApiExc("create_frame_item"), "", board, items.calls \o create)
       ELSE LET framed == [board EXCEPT ![NewFrameId] = BItem("frame", "")]
                moved == Reparent(api, framed, item_ids, NewFrameId, 1)
            IN BR(moved.exc, IF moved.exc = NoExc THEN NewFrameId ELSE "", moved.board,
                  items.calls \o create \o moved.calls)

\* the ids of the items whose parent is group_id, in the order of the listing
RECURSIVE ChildrenOf(_, _, _)
ChildrenOf(board, group_id, ids) ==
    IF ids = <<>> THEN <<>>
    ELSE (IF board[Head(ids)].parent # "" /\ board[Head(ids)].parent = group_id
          THEN <<Head(ids)>> ELSE <<>>)
         \o ChildrenOf(board, group_id, Tail(ids))

\* ungroup_shapes, lines 376-385: the frame is looked up
FindFrame(api, board, group_id) ==
    IF api.frame_getter
    THEN IF board[group_id].type = "frame"
         THEN [exc |-> NoExc, calls |-> <<BCall("get_frame_item", group_id)>>]
         ELSE [exc |-> <<"ValueError", "Frame " \o group_id \o " not found: ">>,
               calls |-> <<BCall("get_frame_item", group_id)>>]
    ELSE IF ~api.get_items
    THEN [exc |-> ApiExc("get_items"), calls |-> <<BCall("get_items", "")>>]
    ELSE IF board[group_id] = Missing
    THEN [exc |-> <<"ValueError", "Frame " \o group_id \o " not found on board">>,
          calls |-> <<BCall("get_items", "")>>]
    ELSE [exc |-> NoExc, calls |-> <<BCall("get_items", "")>>]

\* ungroup_shapes, lines 392-404: the children are listed and unparented,
\* then the frame is deleted
Unparent(api, board, group_id, before) ==
    LET list == before \o <<BCall("get_items", "")>>
        board_items == ChildrenOf(board, group_id, IdOrder)
        cleared == Reparent(api, board, board_items, "", 1)
        delete == <<BCall("delete_frame_item", group_id)>>
    IN IF ~api.get_items THEN BR(ApiExc("get_items"), 0, board, list)
       ELSE IF cleared.exc # NoExc
       THEN BR(cleared.exc, 0, cleared.board, list \o cleared.calls)
       ELSE IF ~api.delete_frame_item
       THEN BR(ApiExc("delete_frame_item"), 0, cleared.board,
               list \o cleared.calls \o delete)
       ELSE BR(NoExc, Len(board_items), [cleared.board EXCEPT ![group_id] = Missing],
               list \o cleared.calls \o delete)

\* ungroup_shapes without the test of line 389: an item of any type is
\* treated as a frame (C24 must notice)
ungroup_shapes_any_type(api, board, group_id) ==
    LET frame == FindFrame(api, board, group_id)
    IN IF frame.exc # NoExc THEN BR(frame.exc, 0, board, frame.calls)
       ELSE Unparent(api, board, group_id, frame.calls)

\* MiroClient.ungroup_shapes, lines 376-404, on the board
ungroup_shapes_board(api, board, group_id) ==
    LET frame == FindFrame(api, board, group_id)
    IN IF frame.exc # NoExc THEN BR(frame.exc, 0, board, frame.calls)
       ELSE IF board[group_id].type # "frame"
       THEN BR(<<"ValueError", "Item " \o group_id \o " is not a frame/group">>, 0, board,
               frame.calls)
       ELSE Unparent(api, board, group_id, frame.calls)

\* the lists of at most MaxItems ids given to group_shapes, an id more than
\* once included (i1 and i2 are items of any type, frames too)
IdLists == UNION {[1..n -> BoardIds \ {"g1"}] : n \in 0..MaxItems}

InitBoard ==
    /\ ServerIdle
    /\ pure \in {[op |-> "group", board |-> b, ids |-> l, api |-> a] :
                    b \in Boards, l \in IdLists,
                    a \in {x \in Apis : x.delete_frame_item}}
                \cup {[op |-> "ungroup", board |-> b, ids |-> <<g>>, api |-> a] :
                        b \in Boards, g \in BoardIds,
                        a \in {x \in Apis : x.create_frame_item}}

\* group_shapes runs on the board
GroupShapes ==
    /\ pure.op = "group"
    /\ pure' = [pure EXCEPT !.op = "group_shapes"]
               @@ [result |-> group_shapes_board(pure.api, pure.board, pure.ids)]
    /\ UNCHANGED serverVars

\* ungroup_shapes runs on the board
UngroupShapes ==
    /\ pure.op = "ungroup"
    /\ pure' = [pure EXCEPT !.op = "ungroup_shapes"]
               @@ [result |-> ungroup_shapes_board(pure.api, pure.board, pure.ids[1])]
    /\ UNCHANGED serverVars

NextBoard == GroupShapes \/ UngroupShapes

BoardSpec == InitBoard /\ [][NextBoard]_vars


(***************************************************************************)
(* Properties.                                                             *)
(***************************************************************************)
\* the iteration for a line has just ended
Done == pc = "done"

\* a step that handles a line
Handles == pc = "head" /\ pc' = "done"

\* the request carries an id: the key is there and its value is not null
\* (request.get('id') is None for both; a JSON-RPC id of MCP is never null)
CarriesId(line) == line.id.t \notin {"absent", "null"}

\* a JSON object read as a request
IsRequest(line) == line.kind = "object"

\* a tools/call whose params are a dict
IsToolsCall(line) ==
    IsRequest(line) /\ line.method = Str("tools/call") /\ line.params = "dict"

\* a tools/call of a registered tool
IsKnownCall(line) == IsToolsCall(line) /\ InTools(ImportedTools, line.name)

\* the 'arguments' handle_tools_call gets for the line
ArgumentsOf(line) ==
    IF line.arguments.t = "absent" THEN ArgsDict(NoArgs) ELSE line.arguments

\* the response r is an internal error
IsInternalError(r) == r.kind = "error" /\ r.code = -32603

\* C1: a request that carries no id (a notification) never causes a response
\* to be written to stdout, even when handling it ends in an error.
C1_NotificationNeverAnswered ==
    (Done /\ IsRequest(last) /\ ~CarriesId(last)) => out = <<>>

\* a well-formed request: a JSON object with one of the three methods or
\* another method name, params that are absent or an object and, for
\* tools/call, a tool name that is a string and arguments that are absent or
\* an object
WellFormed(line) ==
    /\ IsRequest(line)
    /\ line.method.t = "str"
    /\ line.params \in {"absent", "dict"}
    /\ line.method = Str("tools/call") =>
          /\ line.params = "dict"
          /\ line.name.t = "str"
          /\ line.arguments.t \in {"absent", "dict"}

\* the response r is a well-formed answer to the request line
AnswerTo(r, line) ==
    /\ r.id = line.id
    /\ \/ r.kind = "result" /\ line.method \in Methods
       \/ r.kind = "error" /\ r.code = -32601 /\ line.method \notin Methods

\* C2: no line ends the loop: an exception that escapes the handling of a
\* line is answered with a -32603 error, and every well-formed request that
\* carries an id gets exactly its own response, whatever lines came before.
C2_ServerSurvives ==
    /\ alive
    /\ (Done /\ escaped # NoExc) => (Len(out) = 1 /\ IsInternalError(out[1]))
    /\ (Done /\ WellFormed(last) /\ CarriesId(last)) =>
          (Len(out) = 1 /\ AnswerTo(out[1], last))

\* a well-formed request is answered after an earlier line failed
C2_Witness ==
    /\ Done /\ failures >= 2 /\ nlines >= 3
    /\ IsKnownCall(last) /\ WellFormed(last) /\ CarriesId(last)
    /\ tc.reached # NoExc
    /\ Len(out) = 1 /\ out[1].kind = "result" /\ out[1].id = last.id

\* C3: a non-blank line that is not valid JSON gets exactly one error
\* response, code -32700 and id null, and leaves the session, the token file
\* and the tool registry as they were.
C3_ParseError ==
    [][(Handles /\ last'.kind = "garbage") =>
          /\ Len(out') = 1
          /\ out'[1].kind = "error" /\ out'[1].code = -32700 /\ out'[1].id = None
          /\ miro_client' = miro_client
          /\ tokenFile' = tokenFile
          /\ TOOLS' = TOOLS]_vars

\* a garbage line was answered while a session with a live handle exists
C3_Witness ==
    /\ Done /\ last.kind = "garbage" /\ Len(out) = 1
    /\ miro_client.miro.hid # 0

\* C4: a request with a method other than initialize, tools/list and
\* tools/call gets the error -32601 with its id exactly when it carries an
\* id and nothing otherwise; the session is neither constructed nor changed.
C4_MethodNotFound ==
    [][(Handles /\ IsRequest(last') /\ last'.method \notin Methods) =>
          /\ CarriesId(last') =>
                /\ Len(out') = 1
                /\ out'[1].kind = "error" /\ out'[1].code = -32601
                /\ out'[1].id = last'.id
          /\ ~CarriesId(last') => out' = <<>>
          /\ miro_client' = miro_client
          /\ constructed' = constructed]_vars

\* both cases happened: an unknown method with an id, answered ...
C4_Witness ==
    /\ Done /\ IsRequest(last) /\ last.method = Str("foo") /\ last.id = Num(0)
    /\ Len(out) = 1 /\ out[1].code = -32601
    /\ miro_client.inst # 0

\* C5: a tools/call that names a tool not in the registry returns a result
\* (no JSON-RPC error) with isError true and a text naming the tool, and
\* neither constructs nor touches the session.
C5_UnknownTool ==
    [][(Handles /\ IsToolsCall(last') /\ Hashable(last'.name)
          /\ ~InTools(TOOLS, last'.name)) =>
          /\ tc'.exc = NoExc /\ escaped' = NoExc
          /\ tc'.result.isError
          /\ tc'.result.text = <<"Unknown tool: ", PyStr(IF last'.name.t = "absent"
                                                           THEN None ELSE last'.name)>>
          /\ \A i \in 1..Len(out') :
                out'[i].kind = "result" /\ out'[i].isError
                /\ out'[i].body = tc'.result.text
          /\ CarriesId(last') => Len(out') = 1
          /\ ~tc'.built /\ ~tc'.handler.ran
          /\ miro_client' = miro_client
          /\ constructed' = constructed]_vars

\* the tool "frobnicate" was called with an id before any session exists
C5_Witness ==
    /\ Done /\ IsToolsCall(last) /\ last.name = Str("frobnicate") /\ CarriesId(last)
    /\ Len(out) = 1 /\ out[1].kind = "result" /\ out[1].isError
    /\ out[1].body = <<"Unknown tool: ", "frobnicate">>
    /\ miro_client = NoClient /\ config.client_id /\ config.client_secret


\* the exception MiroClient() raises in the state, NoExc if it returns
ConstructionExc == MiroClient(config, tokenFile, 1).exc

\* C6: an exception that leaves a known tool's handler, or the construction
\* of the session, is caught by handle_tools_call and becomes a tool result
\* with isError true that carries the exception's message; handle_tools_call
\* raises nothing and the request gets a result, never a JSON-RPC error.
C6_HandlerExceptionCaught ==
    [][(Handles /\ IsKnownCall(last')) =>
          /\ tc'.exc = NoExc /\ escaped' = NoExc
          /\ \A i \in 1..Len(out') : out'[i].kind = "result"
          /\ CarriesId(last') => Len(out') = 1
          /\ (miro_client = NoClient /\ ConstructionExc # NoExc) =>
                tc'.reached = ConstructionExc
          /\ tc'.handler.exc # NoExc => tc'.reached = tc'.handler.exc
          /\ tc'.reached # NoExc =>
                /\ tc'.result = ToolResult(TRUE, <<"Error executing tool ", last'.name.s,
                                                   ": ", tc'.reached[2]>>)
                /\ \A i \in 1..Len(out') :
                      out'[i].isError /\ out'[i].body = tc'.result.text]_vars

\* a handler raised on arguments that are a list, and the request got a result
C6_Witness ==
    /\ Done /\ IsKnownCall(last) /\ CarriesId(last) /\ last.arguments.t = "list"
    /\ tc.handler.ran /\ tc.handler.exc = AttrErr
    /\ Len(out) = 1 /\ out[1].kind = "result" /\ out[1].isError

\* the parameter p is not marked optional: it has no 'required' mark, or
\* the mark is True
RequiredMarkDefaultTrue(p) == p.required # "false"

\* the parameters of a tool that are not marked optional
RequiredKeys(name) ==
    LET d == ImportedTools[IndexOfName(ImportedTools, name, 1)]
    IN {d.properties[i].key : i \in {j \in 1..Len(d.properties) :
                                        RequiredMarkDefaultTrue(d.properties[j])}}

\* C7: every tool-level failure is surfaced as tool content with isError
\* true: for every known tool, a call with a required argument missing
\* produces a tools/call result whose isError is true.
C7_MissingArgumentIsError ==
    (/\ Done /\ IsKnownCall(last) /\ ArgumentsOf(last).t = "dict"
     /\ \E k \in RequiredKeys(last.name.s) : IsNone(Get(ArgumentsOf(last), k)))
    => tc.result.isError

\* an argument the handler has to reject: a required one that is absent or
\* empty, or one of type number whose value is no number
InvalidArgument(name, a) ==
    \/ \E k \in RequiredKeys(name) : IsNone(Get(a, k)) \/ Get(a, k) \in {Str(""), List(0)}
    \/ \E k \in ParamKeys(name) \cap NumericKeys :
          ~IsNone(Get(a, k)) /\ ~FloatOk(Get(a, k))

\* C8: every handler rejects an argument that is empty, absent or not a
\* number where a number is required by returning an {error: message}
\* payload: it raises no exception and does not call the client.
C8_InvalidArgumentRejected ==
    (/\ Done /\ IsKnownCall(last) /\ tc.handler.ran /\ ArgumentsOf(last).t = "dict"
     /\ InvalidArgument(last.name.s, ArgumentsOf(last)))
    => /\ tc.handler.exc = NoExc
       /\ Len(tc.handler.payload) = 2 /\ tc.handler.payload[1] = "error"
       /\ tc.handler.op = "" /\ tc.handler.calls = <<>>

\* the keys of the parameters that are not marked optional, in their order
RECURSIVE NonOptional(_)
NonOptional(params) ==
    IF params = <<>> THEN <<>>
    ELSE (IF RequiredMarkDefaultTrue(Head(params)) THEN <<Head(params).key>> ELSE <<>>)
         \o NonOptional(Tail(params))

\* C9: for every registered tool the 'required' list of its descriptor is
\* exactly the parameters not marked optional (no mark counts as required),
\* in the insertion order of the parameters.
C9_RequiredList ==
    \A i \in 1..Len(TOOLS) : TOOLS[i].required = NonOptional(TOOLS[i].properties)

\* C10: at most one session is ever constructed; it is constructed by the
\* first tools/call of a known tool and by no other request; every later
\* request finds the same instance, and exchange_auth_code works on the live
\* handle the session holds since the last get_auth_url.
C10_OneSession ==
    /\ [](constructed <= 1 /\ (miro_client # NoClient <=> constructed = 1))
    /\ [][/\ constructed' # constructed =>
                /\ Handles /\ IsKnownCall(last') /\ knownCalls = 0
                /\ constructed' = 1 /\ miro_client'.inst = nlines'
          /\ (Handles /\ IsKnownCall(last') /\ knownCalls = 0 /\ ConstructionExc = NoExc) =>
                constructed' = 1
          /\ miro_client # NoClient => miro_client'.inst = miro_client.inst
          /\ (Handles /\ tc'.handler.op = "exchange_code_for_token"
                /\ miro_client.miro.hid # 0) =>
                /\ miro_client'.miro.hid = miro_client.miro.hid
                /\ tc'.handler.payload # ErrorPayload(NotInitializedMsg)]_vars

\* the session built by the first line got its handle from get_auth_url in
\* the second line, and exchange_auth_code in the third line succeeded on it
C10_Witness ==
    /\ Done /\ nlines = 3 /\ constructed = 1
    /\ IsKnownCall(last) /\ last.name = Str("exchange_auth_code")
    /\ tc.handler.payload = <<"success", "Successfully authenticated with Miro">>
    /\ miro_client.inst = 1 /\ miro_client.miro.hid = 2
    /\ miro_client.miro.access_token \in Tokens

\* the session and the token file a handler of this step finds: the session
\* main holds, or the one get_miro_client constructs for the first known call
AtHandler == get_miro_client(miro_client, config, tokenFile, nlines + 1)

\* C11: a configuration without client id or client secret is detected at
\* startup and is fatal: whenever validate_config fails, the process stops.
C11_ConfigFailureIsFatal ==
    (Done /\ validate_config(config) # NoExc /\ tc.reached = validate_config(config))
    => ~alive

\* C12: exchange_code_for_token without a live handle fails with the
\* not-initialized error, calls no vendor, writes no token file and leaves the
\* live handle and the cached tokens of the session as they were.
C12_ExchangeNeedsHandle ==
    [][(Handles /\ tc'.handler.op = "exchange_code_for_token" /\ AtHandler.client.miro.hid = 0) =>
          /\ tc'.handler.exc = NoExc
          /\ tc'.handler.payload = ErrorPayload(NotInitializedMsg)
          /\ tc'.handler.calls = <<>>
          /\ tokenFile' = AtHandler.file
          /\ miro_client' = AtHandler.client]_vars

\* exchange_auth_code was refused in a session that holds a cached pair
C12_Witness ==
    /\ Done /\ IsKnownCall(last) /\ last.name = Str("exchange_auth_code")
    /\ tc.handler.op = "exchange_code_for_token"
    /\ tc.handler.payload = ErrorPayload(NotInitializedMsg)
    /\ miro_client.miro.hid = 0 /\ miro_client.stored_access_token = "t1"
    /\ tokenFile = File("pair", "t1", "r1")

\* the handler of this step called exchange_code_for_token
Exchanges == Handles /\ tc'.handler.op = "exchange_code_for_token"

\* a session constructed now, which loads the token file
Reloaded(f) == MiroClient(config, f, nlines + 2)

\* C13: when exchange_code_for_token reports success the token file holds
\* the access/refresh pair of the live handle, the session is authenticated
\* and passes the live-handle check of _get_api, and a session constructed
\* afterwards loads an equal pair; when the vendor rejects the code the
\* failure is reported and the token file and the cached tokens are unchanged.
C13_ExchangePersists ==
    [][Exchanges =>
          /\ tc'.handler.payload = <<"success", "Successfully authenticated with Miro">> =>
                /\ TokTruthy(miro_client'.miro.access_token)
                /\ tokenFile' = File("pair", miro_client'.miro.access_token,
                                     miro_client'.miro.refresh_token)
                /\ is_authenticated(miro_client')
                /\ _get_api(miro_client') = NoExc
                /\ Reloaded(tokenFile').exc = NoExc
                /\ Reloaded(tokenFile').file = tokenFile'
                /\ Reloaded(tokenFile').client.stored_access_token
                      = miro_client'.miro.access_token
                /\ Reloaded(tokenFile').client.stored_refresh_token
                      = miro_client'.miro.refresh_token
          /\ (AtHandler.client.miro.hid # 0
                /\ tc'.handler.payload = ErrorPayload("authorization code rejected")) =>
                /\ tc'.handler.calls # <<>>
                /\ tokenFile' = AtHandler.file
                /\ miro_client'.stored_access_token = AtHandler.client.stored_access_token
                /\ miro_client'.stored_refresh_token = AtHandler.client.stored_refresh_token]_vars

\* the exchange of the second line succeeded and the file holds the pair the
\* vendor issued, one without refresh token
C13_Witness ==
    /\ Done /\ tc.handler.op = "exchange_code_for_token"
    /\ tc.handler.payload = <<"success", "Successfully authenticated with Miro">>
    /\ miro_client.miro.access_token = "t2"
    /\ tokenFile = File("pair", "t2", NoTok)
    /\ nlines = 2

\* the client methods that change a board
MutatingOps == {"create_shape", "update_shape", "delete_shape", "group_shapes",
                "ungroup_shapes"}

\* C14: a board-mutating operation reaches the vendor only if the live
\* handle holds a non-empty access token, which only a successful exchange
\* in this process puts there; with only a cached token it fails with the
\* re-authentication error, with no token with the not-authenticated error,
\* both without a vendor call.
C14_MutationNeedsLiveToken ==
    [][/\ (Handles /\ tc'.handler.op \in MutatingOps) =>
             /\ miro_client' = AtHandler.client
             /\ tc'.handler.calls # <<>> =>
                   /\ HasLiveToken(miro_client')
                   /\ \A i \in 1..Len(tc'.handler.calls) :
                         tc'.handler.calls[i].token = miro_client'.miro.access_token
             /\ (~HasLiveToken(miro_client') /\ TokTruthy(miro_client'.stored_access_token)) =>
                   /\ tc'.handler.payload = ErrorPayload(ReauthMsg)
                   /\ tc'.handler.calls = <<>>
             /\ (~HasLiveToken(miro_client') /\ miro_client'.stored_access_token = NoTok) =>
                   /\ tc'.handler.payload = ErrorPayload(NotAuthenticatedMsg)
                   /\ tc'.handler.calls = <<>>
             /\ (~HasLiveToken(miro_client') /\ miro_client'.stored_access_token = "") =>
                   /\ tc'.handler.payload =
                         ErrorPayload("Not authenticated. Please complete OAuth flow first.")
                   /\ tc'.handler.calls = <<>>
       /\ (~HasLiveToken(miro_client) /\ HasLiveToken(miro_client')) =>
             /\ Exchanges
             /\ tc'.handler.calls = <<VCall("exchange_code_for_access_token", {}, NoTok)>>
             /\ miro_client'.miro.hid = miro_client.miro.hid]_vars

\* create_shape reached the vendor with the token of the exchange, in a
\* session that also holds a cached pair
C14_Witness ==
    /\ Done /\ tc.handler.op = "create_shape"
    /\ Len(tc.handler.calls) = 1 /\ tc.handler.calls[1].call = "create_shape_item"
    /\ tc.handler.calls[1].token = "t1"
    /\ HasLiveToken(miro_client)

\* C15: get_board needs only an authenticated session: whenever
\* is_authenticated() is true (a live token, or a cached token whatever its
\* value) it issues the HTTP GET with the live token if there is one and the
\* cached token otherwise and reports no authentication error; whenever
\* is_authenticated() is false it fails without an HTTP request.
C15_GetBoardNeedsAuthenticatedOnly ==
    (Done /\ tc.handler.op = "get_board") =>
        /\ is_authenticated(miro_client) =>
              /\ Len(tc.handler.calls) = 1
              /\ tc.handler.calls[1].call = "GET /v2/boards"
              /\ tc.handler.calls[1].token =
                    IF HasLiveToken(miro_client) THEN miro_client.miro.access_token
                    ELSE miro_client.stored_access_token
              /\ tc.handler.payload \notin {ErrorPayload(NotAuthenticatedMsg),
                                            ErrorPayload("No access token available")}
        /\ ~is_authenticated(miro_client) =>
              /\ tc.handler.calls = <<>>
              /\ tc.handler.payload = ErrorPayload(NotAuthenticatedMsg)

\* a token file that is corrupt: unparsable, valid JSON that is no object, or
\* an object without 'access_token'
CorruptFiles == {"garbage", "nondict", "nokey"}

\* C16: a corrupt token file never fails the construction of the session:
\* the session starts unauthenticated, without cached tokens, and the file
\* is gone afterwards.
C16_CorruptFileRecovered ==
    [][(/\ Handles /\ IsKnownCall(last') /\ miro_client = NoClient
        /\ validate_config(config) = NoExc /\ tokenFile.k \in CorruptFiles) =>
          /\ tc'.built
          /\ AtHandler.exc = NoExc
          /\ AtHandler.client.stored_access_token = NoTok
          /\ AtHandler.client.stored_refresh_token = NoTok
          /\ ~is_authenticated(AtHandler.client)
          /\ AtHandler.file = NoFile]_vars

\* C17: saving tokens is all-or-nothing: after exchange_code_for_token,
\* whether or not the write failed, the token file holds the complete pair
\* it held before or the complete new pair, and the cached pair agrees with
\* the file.
C17_SaveAllOrNothing ==
    [][Exchanges =>
          /\ tokenFile' \in {AtHandler.file,
                              File("pair", miro_client'.miro.access_token,
                                   miro_client'.miro.refresh_token)}
          /\ tokenFile'.k = "pair" =>
                /\ miro_client'.stored_access_token = tokenFile'.access
                /\ miro_client'.stored_refresh_token = tokenFile'.refresh
          /\ tokenFile'.k = "absent" => miro_client'.stored_access_token = NoTok]_vars

\* item_ids that group_shapes must not accept
BadItemIds(ids) == IsNone(ids) \/ ids.t # "list" \/ ids.n < 2

\* C18: group_shapes called through the tool layer with item_ids that is
\* absent, no list or a list of fewer than 2 ids is rejected with an error
\* payload, and the client's group_shapes is not called.
C18_GroupNeedsTwoItems ==
    (/\ Done /\ IsKnownCall(last) /\ last.name = Str("group_shapes")
     /\ tc.handler.ran /\ ArgumentsOf(last).t = "dict"
     /\ BadItemIds(Get(ArgumentsOf(last), "item_ids"))) =>
        /\ tc.handler.exc = NoExc
        /\ Len(tc.handler.payload) = 2 /\ tc.handler.payload[1] = "error"
        /\ Truthy(Get(ArgumentsOf(last), "board_id")) =>
              tc.handler.payload =
                  ErrorPayload("item_ids must be a list with at least 2 item IDs")
        /\ tc.handler.op = ""
        /\ tc.handler.calls = <<>>

\* a list of one id was rejected in a session whose live handle holds a
\* token, so that the client would have reached the vendor
C18_Witness ==
    /\ Done /\ IsKnownCall(last) /\ last.name = Str("group_shapes")
    /\ Get(ArgumentsOf(last), "item_ids") = List(1)
    /\ tc.handler.ran
    /\ tc.handler.payload = ErrorPayload("item_ids must be a list with at least 2 item IDs")
    /\ HasLiveToken(miro_client)

\* C19: the frame group_shapes creates is the bounding box of the items: no
\* item lies left of or above its corner or reaches beyond its width and
\* height, some item lies on each of its four edges (x = min x, y = min y,
\* width = max (x + width) - min x, height = max (y + height) - min y), and
\* for the items (0,0,10,10) and (20,5,10,10) it is {x:0, y:0, width:30,
\* height:15}.
C19_FrameIsBoundingBox ==
    pure.op = "group_shapes" =>
        LET f == pure.frame
            its == pure.items
            idx == 1..Len(its)
        IN /\ \A i \in idx :
                 /\ f.x <= its[i].x /\ its[i].x + its[i].width <= f.x + f.width
                 /\ f.y <= its[i].y /\ its[i].y + its[i].height <= f.y + f.height
           /\ \E i \in idx : its[i].x = f.x
           /\ \E i \in idx : its[i].y = f.y
           /\ \E i \in idx : its[i].x + its[i].width = f.x + f.width
           /\ \E i \in idx : its[i].y + its[i].height = f.y + f.height
           /\ its = <<Item(0, 0, 10, 10), Item(20, 5, 10, 10)>> =>
                 f = [x |-> 0, y |-> 0, width |-> 30, height |-> 15]

\* the frame of the items (0,0,10,10) and (20,5,10,10) was computed
C19_Witness ==
    /\ pure.op = "group_shapes"
    /\ pure.items = <<Item(0, 0, 10, 10), Item(20, 5, 10, 10)>>
    /\ pure.frame = [x |-> 0, y |-> 0, width |-> 30, height |-> 15]

\* the inputs C20 speaks of: None, primitives, mappings with string keys,
\* sequences, sets, objects with attributes and model objects whose dump
\* method raises, nested in each other
RECURSIVE ClaimedInput(_)
ClaimedInput(obj) ==
    /\ obj.k \in {"none", "prim", "dict", "list", "tuple", "set", "obj"}
    /\ obj.key = "str"
    /\ obj.dump \in {"none", "throws", "python"}
    /\ \A i \in 1..Len(obj.items) : ClaimedInput(obj.items[i].v)

\* C20: convert_to_dict is total: for every value built from None,
\* primitives, nested mappings, sequences and sets, objects with attributes
\* and model objects whose dump method raises, it raises nothing and returns
\* a value json.dumps accepts.
C20_NormalizeTotal ==
    (pure.op = "convert_to_dict" /\ ClaimedInput(pure.obj)) =>
        /\ pure.result.exc = NoExc
        /\ JsonSerializable(pure.result.val)

\* the handler of this step called exchange_code_for_token and it returned
SuccessfulExchange ==
    Exchanges /\ tc'.handler.payload = <<"success", "Successfully authenticated with Miro">>

\* C21: get_auth_url replaces the live handle of the session with a new one
\* that holds no access token and leaves the cached pair and the token file
\* alone; from then on every board-mutating operation fails without a vendor
\* call until exchange_code_for_token succeeds: only a successful exchange
\* gives a session a live token.
C21_AuthUrlResetsLiveHandle ==
    [][/\ (Handles /\ tc'.handler.op = "get_auth_url") =>
             /\ miro_client'.miro.hid \notin {0, AtHandler.client.miro.hid}
             /\ miro_client'.miro.access_token = NoTok
             /\ ~HasLiveToken(miro_client')
             /\ miro_client'.stored_access_token = AtHandler.client.stored_access_token
             /\ miro_client'.stored_refresh_token = AtHandler.client.stored_refresh_token
             /\ tokenFile' = AtHandler.file
       /\ (Handles /\ tc'.handler.op \in MutatingOps /\ ~HasLiveToken(AtHandler.client)) =>
             /\ tc'.handler.calls = <<>>
             /\ Len(tc'.handler.payload) = 2 /\ tc'.handler.payload[1] = "error"
       /\ (~HasLiveToken(miro_client) /\ ~SuccessfulExchange) =>
             ~HasLiveToken(miro_client')]_vars

\* C22: the token file changes in two ways only: a successful exchange
\* overwrites it with the pair of the live handle, and the construction of
\* the session removes a corrupt file.  No other step (get_auth_url, a failed
\* exchange, get_board, shape and group operations, initialize, tools/list)
\* creates or changes it, so a file absent at start stays absent until the
\* first successful exchange.
C22_TokenFileFrame ==
    [][/\ SuccessfulExchange =>
             tokenFile' = File("pair", miro_client'.miro.access_token,
                               miro_client'.miro.refresh_token)
       /\ tokenFile' # tokenFile =>
             \/ SuccessfulExchange
             \/ /\ Handles /\ tc'.built
                /\ tokenFile.k \in CorruptFiles /\ tokenFile' = NoFile]_vars

\* the three-tier lookup finds the item: as a shape, as a frame, or in the
\* listing of the board
Resolves(api, board, id) ==
    \/ board[id].type = "shape"
    \/ board[id].type = "frame" /\ api.frame_getter
    \/ board[id] # Missing /\ api.get_items

\* the positions of the calls of the given names among the vendor calls
Positions(calls, names) == {i \in 1..Len(calls) : calls[i].call \in names}

\* the first of the ids that the lookup does not find
RECURSIVE FirstUnresolved(_, _, _)
FirstUnresolved(api, board, ids) ==
    IF ~Resolves(api, board, Head(ids)) THEN Head(ids)
    ELSE FirstUnresolved(api, board, Tail(ids))

\* group_shapes resolved every id first, then created one frame, then
\* reparented every input item; it created and reparented nothing unless
\* every id resolved, and after success every input item is in the new frame
GroupInOrder(p) ==
    LET r == p.result
        ids == p.ids
        calls == r.calls
        lookups == Positions(calls, {"get_shape_item", "get_frame_item", "get_items"})
        creates == Positions(calls, {"create_frame_item"})
        updates == Positions(calls, {"update_item_position_or_parent"})
    IN /\ Cardinality(creates) <= 1
       /\ \A i \in lookups : \A j \in creates \cup updates : i < j
       /\ \A i \in creates : \A j \in updates : i < j
       /\ updates # {} => creates # {}
       /\ (\E k \in 1..Len(ids) : ~Resolves(p.api, p.board, ids[k])) =>
             /\ r.exc # NoExc
             /\ creates = {} /\ updates = {}
             /\ r.board = p.board
       /\ r.exc = NoExc =>
             /\ Cardinality(creates) = 1
             /\ r.value = NewFrameId
             /\ r.board[NewFrameId] = BItem("frame", "")
             /\ \A k \in 1..Len(ids) :
                   /\ r.board[ids[k]] = [p.board[ids[k]] EXCEPT !.parent = NewFrameId]
                   /\ calls[Len(calls) - Len(ids) + k] =
                         BCall("update_item_position_or_parent", ids[k])
             /\ \A i \in BoardIds :
                   (\A k \in 1..Len(ids) : ids[k] # i) => r.board[i] = p.board[i]

\* C23 as stated: group_shapes resolves every input id first, then creates
\* exactly one frame, then reparents every input item under it; no frame is
\* created and no item reparented unless every input id resolved; after a
\* successful call every input item's parent is the new frame; and the call
\* fails with the no-items-found error when zero items resolve.
C23_GroupNoItemsFound ==
    pure.op = "group_shapes" =>
        /\ GroupInOrder(pure)
        /\ (\A k \in 1..Len(pure.ids) : ~Resolves(pure.api, pure.board, pure.ids[k])) =>
              pure.result.exc = <<"ValueError", "No items found to group">>

\* C23, amended: as above, but the call fails with the no-items-found error
\* only for an empty list of ids; when an id does not resolve it fails with
\* the error of the lookup of the first such id: item not found, or the
\* exception of the listing.
C23_GroupResolvesFirst ==
    pure.op = "group_shapes" =>
        /\ GroupInOrder(pure)
        /\ pure.ids = <<>> => pure.result.exc = <<"ValueError", "No items found to group">>
        /\ (\E k \in 1..Len(pure.ids) : ~Resolves(pure.api, pure.board, pure.ids[k])) =>
              pure.result.exc =
                  IF pure.api.get_items
                  THEN <<"ValueError", "Item "
                            \o FirstUnresolved(pure.api, pure.board, pure.ids)
                            \o " not found on board">>
                  ELSE ApiExc("get_items")

\* group_shapes was called with two ids of which the first exists and the
\* second does not, while the vendor serves every call: it failed with the
\* item-not-found error of the second id and left the board alone
C23_Witness ==
    /\ pure.op = "group_shapes"
    /\ pure.ids = <<"i1", "i2">>
    /\ pure.board["i1"].type = "shape" /\ pure.board["i2"] = Missing
    /\ pure.api.get_items /\ pure.api.create_frame_item /\ pure.api.failAt = 0
    /\ pure.result.exc = <<"ValueError", "Item i2 not found on board">>
    /\ pure.result.board = pure.board

\* the items of the board whose parent is the item g
Children(board, g) == {i \in BoardIds : board[i].parent = g}

\* C24: ungroup_shapes fails without changing the board when the item the
\* group id names is no frame (or does not exist); otherwise it clears the
\* parent of every item whose parent is the group and only then deletes the
\* frame: after a successful call the frame is gone, no item has it as
\* parent, nothing else changed and the count returned is the number of items
\* unparented; when clearing a parent fails the frame is not deleted.
C24_UngroupClearsThenDeletes ==
    pure.op = "ungroup_shapes" =>
        LET r == pure.result
            g == pure.ids[1]
            calls == r.calls
            updates == Positions(calls, {"update_item_position_or_parent"})
            deletes == Positions(calls, {"delete_frame_item"})
        IN /\ pure.board[g].type # "frame" =>
                 /\ r.exc # NoExc
                 /\ r.board = pure.board
                 /\ updates = {} /\ deletes = {}
           /\ \A i \in updates : \A j \in deletes : i < j
           /\ \A i \in updates : calls[i].id \in Children(pure.board, g)
           /\ deletes # {} =>
                 /\ Cardinality(deletes) = 1
                 /\ {calls[i].id : i \in updates} = Children(pure.board, g)
                 /\ Children(r.board, g) = {}
           /\ r.exc = NoExc =>
                 /\ deletes # {}
                 /\ r.board[g] = Missing
                 /\ Children(r.board, g) = {}
                 /\ r.value = Cardinality(Children(pure.board, g))
                 /\ r.value = Cardinality(updates)
                 /\ \A i \in BoardIds \ {g} :
                       r.board[i] = IF i \in Children(pure.board, g)
                                    THEN [pure.board[i] EXCEPT !.parent = ""]
                                    ELSE pure.board[i]
           /\ r.exc = ApiExc("update_item_position_or_parent") =>
                 /\ deletes = {}
                 /\ r.board[g] = pure.board[g]

\* the frame g1 held both i1 and i2 and was ungrouped: both were unparented,
\* then the frame was deleted, and the count is 2
C24_Witness ==
    /\ pure.op = "ungroup_shapes"
    /\ pure.ids = <<"g1">>
    /\ Children(pure.board, "g1") = {"i1", "i2"}
    /\ pure.result.exc = NoExc
    /\ pure.result.value = 2
    /\ pure.result.board["g1"] = Missing
    /\ pure.result.board["i1"].parent = "" /\ pure.result.board["i2"].parent = ""
    /\ pure.result.calls[Len(pure.result.calls)] = BCall("delete_frame_item", "g1")

\* the optional fields of update_shape
UpdateFields == {"x", "y", "width", "height", "fillColor", "borderColor", "borderWidth",
                 "content"}

\* every optional field of the arguments is absent or holds a value of its
\* type: a number, a non-empty color, a text
ValidUpdate(a) ==
    /\ Truthy(Get(a, "board_id")) /\ Truthy(Get(a, "item_id"))
    /\ \A k \in {"x", "y", "width", "height", "borderWidth"} :
          IsNone(Get(a, k)) \/ FloatOk(Get(a, k))
    /\ \A k \in {"fillColor", "borderColor"} : IsNone(Get(a, k)) \/ Truthy(Get(a, k))
    /\ IsNone(Get(a, "content")) \/ Get(a, "content").t = "str"

\* the fields of the vendor's payload that stand for the fields given (a
\* color comes with its opacity)
PayloadOf(keys) ==
    {"position." \o k : k \in keys \cap {"x", "y"}}
    \cup {"geometry." \o k : k \in keys \cap {"width", "height"}}
    \cup (IF "content" \in keys THEN {"data.content"} ELSE {})
    \cup (IF "fillColor" \in keys THEN {"style.fill_color", "style.fill_opacity"} ELSE {})
    \cup (IF "borderColor" \in keys THEN {"style.border_color", "style.border_opacity"} ELSE {})
    \cup (IF "borderWidth" \in keys THEN {"style.border_width"} ELSE {})

\* C25: update_shape through the tool layer sets exactly the fields given:
\* whatever subset of x, y, width, height, fillColor, borderColor,
\* borderWidth and content an authenticated caller gives, the handler sends
\* one update to the vendor whose payload holds those fields and no others;
\* it does not fail because another optional field is missing.
C25_UpdateSetsGivenFields ==
    (/\ Done /\ IsKnownCall(last) /\ last.name = Str("update_shape")
     /\ ArgumentsOf(last).t = "dict" /\ ValidUpdate(ArgumentsOf(last))
     /\ HasLiveToken(miro_client)) =>
        /\ tc.handler.exc = NoExc
        /\ tc.handler.op = "update_shape"
        /\ tc.handler.calls =
              << VCall("update_shape_item", PayloadOf(Given(ArgumentsOf(last), UpdateFields)),
                       miro_client.miro.access_token) >>

\* C26: every response written for a request that was parsed as JSON and
\* carries an id has that id, be it a result, a method-not-found error or an
\* internal error; a response with id null is the answer to a line that is
\* not valid JSON, and nothing else.
C26_ResponseEchoesId ==
    Done =>
        \A i \in 1..Len(out) :
            /\ (IsRequest(last) /\ CarriesId(last)) => out[i].id = last.id
            /\ out[i].id = None =>
                  (last.kind = "garbage" /\ out[i].kind = "error" /\ out[i].code = -32700)

\* C27: within one process is_authenticated() is monotone: once true it stays
\* true, whatever get_auth_url, exchange_code_for_token (successful,
\* rejected, or failing while saving the token file), get_board and shape and
\* group operations follow.
C27_AuthenticatedMonotone ==
    [][is_authenticated(miro_client) => is_authenticated(miro_client')]_vars

\* the request line with the id "a" added
WithId(line) == [line EXCEPT !.id = Str("a")]

\* C28: a tools/call without id is executed in full: the session is
\* constructed if needed and the handler has the effects on the live handle,
\* the cached tokens, the token file and the vendor that the same call with
\* an id has under the same vendor behaviour; the only difference is that
\* no response is written.
C28_NotificationCallExecuted ==
    [][(/\ Handles /\ IsRequest(last') /\ last'.method = Str("tools/call")
        /\ ~CarriesId(last')) =>
          /\ out' = <<>>
          /\ \E v \in VendorsFor(last'.name) :
                LET withId == process_tools_call(TOOLS, WithId(last'), miro_client, config,
                                                 tokenFile, v, nlines + 1)
                IN /\ tc' = withId.tc
                   /\ escaped' = withId.exc
                   /\ miro_client' = withId.tc.client
                   /\ tokenFile' = withId.tc.file
                   /\ constructed' = constructed + (IF withId.tc.built THEN 1 ELSE 0)]_vars

====
